---- MODULE Spec2Model ----
(***************************************************************************)
(* Mach-O code-signing engine of the IPA signer.                           *)
(*                                                                         *)
(* A byte buffer is a sequence of integers 0..255.  Python offsets are     *)
(* 0-based; data[a:b] is Slice(data, a, b).  A 32-bit field is kept as a   *)
(* "word": the tuple of its four bytes, most significant first, so that    *)
(* magic numbers above 2^31 compare exactly; Val turns a word into a       *)
(* number where the code does arithmetic with it.                          *)
(*                                                                         *)
(* hashlib.sha256 and the RSA signature are modelled by checksums that     *)
(* depend on the length and on every byte of their input (Sha256, Sign).   *)
(* The host is little-endian (struct's native 'I' reads little-endian).    *)
(***************************************************************************)
EXTENDS Integers, Sequences, FiniteSets, TLC

\* ---------------------------------------------------------------- bytes

Min(a, b) == IF a < b THEN a ELSE b

Max(a, b) == IF a < b THEN b ELSE a

Zeros(n) == [i \in 1..n |-> 0]

\* Python data[a:b] for 0 <= a, 0 <= b (both ends clamped to len(data)).
Slice(data, a, b) == SubSeq(data, Min(a, Len(data)) + 1, Min(b, Len(data)))

\* Python bytearray slice assignment r[a:b] = v (the slice is clamped, so a
\* slice that starts at or past the end appends v).
SetSlice(r, a, b, v) ==
    LET lo == Min(a, Len(r))
        hi == Max(lo, Min(b, Len(r)))
    IN  SubSeq(r, 1, lo) \o v \o SubSeq(r, hi + 1, Len(r))

\* bytes.ljust(n, b'\0')
LJust(s, n) == s \o Zeros(Max(0, n - Len(s)))

\* rstrip('\x00') of a decoded name
RECURSIVE RStrip(_)
RStrip(s) == IF Len(s) > 0 /\ s[Len(s)] = 0 THEN RStrip(SubSeq(s, 1, Len(s) - 1)) ELSE s

\* struct.unpack_from of one 'I' at offset off; the caller checks the bounds.
Unpack32(data, off, le) ==
    IF le THEN <<data[off + 4], data[off + 3], data[off + 2], data[off + 1]>>
          ELSE <<data[off + 1], data[off + 2], data[off + 3], data[off + 4]>>

\* struct.unpack_from of one 'Q' at offset off, as the pair <<high, low>> of words.
Unpack64(data, off, le) ==
    IF le THEN <<Unpack32(data, off + 4, TRUE), Unpack32(data, off, TRUE)>>
          ELSE <<Unpack32(data, off, FALSE), Unpack32(data, off + 4, FALSE)>>

Val(w) == ((w[1] * 256 + w[2]) * 256 + w[3]) * 256 + w[4]

\* a 64-bit field whose high word is zero, as a number
Val64(q) == Val(q[2])

Word(n) == <<(n \div 16777216) % 256, (n \div 65536) % 256, (n \div 256) % 256, n % 256>>

Rev(w) == [i \in 1..Len(w) |-> w[Len(w) + 1 - i]]

\* struct.pack('>I', n) and struct.pack('<I', n)
Pack32(n, le) == IF le THEN Rev(Word(n)) ELSE Word(n)

PackWord(w, le) == IF le THEN Rev(w) ELSE w

\* struct.pack('Q', hi * 2^32 + lo)
Pack64(hi, lo, le) == IF le THEN Pack32(lo, TRUE) \o Pack32(hi, TRUE)
                            ELSE Pack32(hi, FALSE) \o Pack32(lo, FALSE)

\* ---------------------------------------------------------------- magic numbers

MH_MAGIC      == <<254, 237, 250, 206>>   \* 0xfeedface
MH_MAGIC_64   == <<254, 237, 250, 207>>   \* 0xfeedfacf
MH_CIGAM      == <<206, 250, 237, 254>>   \* 0xcefaedfe
MH_CIGAM_64   == <<207, 250, 237, 254>>   \* 0xcffaedfe
FAT_MAGIC     == <<202, 254, 186, 190>>   \* 0xcafebabe
FAT_CIGAM     == <<190, 186, 254, 202>>   \* 0xbebafeca

MAGIC_VALUES  == {MH_MAGIC, MH_MAGIC_64, MH_CIGAM, MH_CIGAM_64, FAT_MAGIC, FAT_CIGAM}

LC_SEGMENT_64      == <<0, 0, 0, 25>>     \* 0x19
LC_ROUTINES_64     == <<0, 0, 0, 26>>     \* 0x1a
LC_CODE_SIGNATURE  == <<0, 0, 0, 29>>     \* 0x1d
LC_LOAD_DYLIB      == <<0, 0, 0, 12>>     \* 0x0c
LC_LOAD_WEAK_DYLIB == <<128, 0, 0, 24>>   \* 0x18 | 0x80000000

CPU_ARM64     == <<1, 0, 0, 12>>          \* 0x0100000c
CPU_X86_64    == <<1, 0, 0, 7>>           \* 0x01000007
CPU_X86       == <<0, 0, 0, 7>>           \* 0x00000007
CPU_POWERPC   == <<0, 0, 0, 18>>          \* 0x00000012

CSMAGIC_CODEDIRECTORY      == <<250, 222, 12, 2>>     \* 0xfade0c02
CSMAGIC_EMBEDDED_SIGNATURE == <<250, 222, 12, 192>>   \* 0xfade0cc0
CSMAGIC_BLOBWRAPPER        == <<250, 222, 11, 1>>     \* 0xfade0b01

SEG_PAGEZERO == <<95, 95, 80, 65, 71, 69, 90, 69, 82, 79>>   \* "__PAGEZERO"
SEG_TEXT     == <<95, 95, 84, 69, 88, 84>>                   \* "__TEXT"
SECT_TEXT    == <<95, 95, 116, 101, 120, 116>>                \* "__text"
SEG_LINKEDIT == <<95, 95, 76, 73, 78, 75, 69, 68, 73, 84>>   \* "__LINKEDIT"

\* ---------------------------------------------------------------- Mach-O parsing (src/src/tools/macho/structures.py)

Failure(msg) == [ok |-> FALSE, err |-> msg]

\* MachOHeader.__init__: the magic is read in native (little-endian) order and
\* selects the byte order of the seven header fields.
MachOHeader(data) ==
    IF Len(data) < 4 THEN Failure("struct.error")
    ELSE LET native == Unpack32(data, 0, TRUE)
         IN  IF native \notin {MH_MAGIC, MH_MAGIC_64, MH_CIGAM, MH_CIGAM_64}
             THEN Failure("Invalid Mach-O magic")
             ELSE IF Len(data) < 28 THEN Failure("struct.error")
             ELSE LET le    == native \in {MH_MAGIC, MH_MAGIC_64}
                      magic == Unpack32(data, 0, le)
                  IN  [ok         |-> TRUE,
                       err        |-> "",
                       magic      |-> magic,
                       cputype    |-> Unpack32(data, 4, le),
                       cpusubtype |-> Unpack32(data, 8, le),
                       filetype   |-> Unpack32(data, 12, le),
                       ncmds      |-> Val(Unpack32(data, 16, le)),
                       sizeofcmds |-> Val(Unpack32(data, 20, le)),
                       flags      |-> Unpack32(data, 24, le),
                       is_64bit   |-> magic \in {MH_MAGIC_64, MH_CIGAM_64},
                       size       |-> 32]

\* LoadCommand.__init__ (offset is where the command was read; data is
\* data[offset:offset + cmdsize])
LoadCommand(data, offset, is_little_endian) ==
    LET cmdsize == Val(Unpack32(data, offset + 4, is_little_endian))
    IN  [cmd     |-> Unpack32(data, offset, is_little_endian),
         cmdsize |-> cmdsize,
         offset  |-> offset,
         data    |-> Slice(data, offset, offset + cmdsize)]

\* struct.calcsize of the SegmentCommand format
SegmentFmtSize(is_64bit) == IF is_64bit THEN 72 ELSE 56

\* Section.__init__ (at is where the record was decoded)
Section(data, offset, is_64bit, le) ==
    [at       |-> offset,
     sectname |-> RStrip(Slice(data, offset, offset + 16)),
     segname  |-> RStrip(Slice(data, offset + 16, offset + 32)),
     offset   |-> IF is_64bit THEN Val(Unpack32(data, offset + 48, le))
                              ELSE Val(Unpack32(data, offset + 40, le))]

\* the section loop of MachO.__init__ (lines 159-168)
RECURSIVE ParseSections(_, _, _, _, _, _, _)
ParseSections(data, is_64bit, le, j, nsects, sect_offset, acc) ==
    LET sect_size == IF ~is_64bit THEN 68 ELSE 80
    IN  IF j >= nsects THEN [ok |-> TRUE, err |-> "", sections |-> acc]
        ELSE IF sect_offset + sect_size > Len(data)
             THEN [ok |-> FALSE, err |-> "Section extends beyond file bounds", sections |-> acc]
             ELSE ParseSections(data, is_64bit, le, j + 1, nsects, sect_offset + sect_size,
                                Append(acc, Section(data, sect_offset, is_64bit, le)))

\* SegmentCommand.__init__; the caller checks that the format fits
SegmentCommand(data, offset, is_64bit, le) ==
    [cmd      |-> Unpack32(data, offset, le),
     cmdsize  |-> Val(Unpack32(data, offset + 4, le)),
     at       |-> offset,
     segname  |-> RStrip(Slice(data, offset + 8, offset + 24)),
     fileoff  |-> IF is_64bit THEN Val64(Unpack64(data, offset + 40, le))
                              ELSE Val(Unpack32(data, offset + 32, le)),
     filesize |-> IF is_64bit THEN Val64(Unpack64(data, offset + 48, le))
                              ELSE Val(Unpack32(data, offset + 36, le)),
     nsects   |-> IF is_64bit THEN Val(Unpack32(data, offset + 64, le))
                              ELSE Val(Unpack32(data, offset + 48, le)),
     sections |-> <<>>]

\* the load-command loop of MachO.__init__ (lines 144-176)
RECURSIVE ParseLoadCommands(_, _, _, _, _, _, _, _)
ParseLoadCommands(data, is_64bit, le, i, ncmds, offset, cmds, segs) ==
    IF i >= ncmds THEN [ok |-> TRUE, err |-> "", load_commands |-> cmds, segments |-> segs]
    ELSE IF offset + 8 > Len(data)
    THEN [ok |-> FALSE, err |-> "Load command extends beyond file bounds",
          load_commands |-> cmds, segments |-> segs]
    ELSE LET cmd == LoadCommand(data, offset, le)
         IN  IF cmd.cmd \in {LC_SEGMENT_64, LC_ROUTINES_64}
             THEN IF offset + SegmentFmtSize(is_64bit) > Len(data)
                  THEN [ok |-> FALSE, err |-> "Invalid segment/section data",
                        load_commands |-> cmds, segments |-> segs]
                  ELSE LET seg == SegmentCommand(data, offset, is_64bit, le)
                           so  == offset + (IF ~is_64bit THEN 72 ELSE 80)
                           ps  == ParseSections(data, is_64bit, le, 0, seg.nsects, so, <<>>)
                       IN  IF ~ps.ok
                           THEN [ok |-> FALSE, err |-> ps.err,
                                 load_commands |-> cmds, segments |-> segs]
                           ELSE ParseLoadCommands(data, is_64bit, le, i + 1, ncmds,
                                    offset + cmd.cmdsize, Append(cmds, cmd),
                                    Append(segs, [seg EXCEPT !.sections = ps.sections]))
             ELSE ParseLoadCommands(data, is_64bit, le, i + 1, ncmds,
                                    offset + cmd.cmdsize, Append(cmds, cmd), segs)

\* priority of a fat_arch entry in MachO._extract_arch_slice (lines 217-221)
ArchPriority(cputype) ==
    IF cputype = CPU_ARM64 THEN 2 ELSE IF cputype = CPU_X86 THEN 1 ELSE -1

\* the fat_arch loop of MachO._extract_arch_slice (lines 202-230); preferred is
\* <<arch_offset, size>> or <<>>.  The `continue` of an out-of-bounds entry
\* skips the `offset += arch_size` at the end of the loop body.
RECURSIVE FatLoop(_, _, _, _, _, _, _)
FatLoop(data, big, i, nfat_arch, offset, preferred, prio) ==
    IF i >= nfat_arch THEN [ok |-> TRUE, err |-> "", preferred |-> preferred]
    ELSE IF offset + 20 > Len(data)
    THEN [ok |-> FALSE, err |-> "Fat architecture header extends beyond file bounds",
          preferred |-> preferred]
    ELSE LET cputype     == Unpack32(data, offset, ~big)
             arch_offset == Val(Unpack32(data, offset + 8, ~big))
             size        == Val(Unpack32(data, offset + 12, ~big))
         IN  IF arch_offset + size > Len(data)
             THEN FatLoop(data, big, i + 1, nfat_arch, offset, preferred, prio)
             ELSE IF ArchPriority(cputype) > prio
                  THEN FatLoop(data, big, i + 1, nfat_arch, offset + 20,
                               <<arch_offset, size>>, ArchPriority(cputype))
                  ELSE FatLoop(data, big, i + 1, nfat_arch, offset + 20, preferred, prio)

\* the slice that the fat_arch loop selected (lines 232-240)
PreferredSlice(data, r) ==
    IF ~r.ok THEN [ok |-> FALSE, err |-> r.err, data |-> <<>>]
    ELSE IF r.preferred = <<>>
    THEN [ok |-> FALSE, err |-> "No suitable architecture found in universal binary",
          data |-> <<>>]
    ELSE [ok |-> TRUE, err |-> "",
          data |-> Slice(data, r.preferred[1], r.preferred[1] + r.preferred[2])]

\* MachO._extract_arch_slice
ExtractArchSlice(data) ==
    IF Len(data) < 8 THEN [ok |-> FALSE, err |-> "Universal binary header too small", data |-> <<>>]
    ELSE LET big       == Unpack32(data, 0, FALSE) = FAT_MAGIC
             nfat_arch == Val(Unpack32(data, 4, ~big))
         IN  IF nfat_arch > 10
             THEN [ok |-> FALSE, err |-> "Too many architectures in universal binary", data |-> <<>>]
             ELSE PreferredSlice(data, FatLoop(data, big, 0, nfat_arch, 8, <<>>, -1))

NoMachO(msg) ==
    [ok |-> FALSE, err |-> msg, data |-> <<>>, is_little_endian |-> FALSE,
     header |-> Failure(msg), load_commands |-> <<>>, segments |-> <<>>]

\* the object MachO.__init__ leaves once the load-command loop has ended
MachOParsed(data, is_little_endian, header, r) ==
    IF ~r.ok THEN NoMachO(r.err)
    ELSE [ok |-> TRUE, err |-> "", data |-> data,
          is_little_endian |-> is_little_endian, header |-> header,
          load_commands |-> r.load_commands, segments |-> r.segments]

\* MachO.__init__ from the ncmds check on (lines 139-176)
MachOCommands(data, is_little_endian, header) ==
    IF ~header.ok THEN NoMachO(header.err)
    ELSE IF header.ncmds > 128 THEN NoMachO("Too many load commands")
    ELSE MachOParsed(data, is_little_endian, header,
                     ParseLoadCommands(data, header.is_64bit, is_little_endian, 0,
                                       header.ncmds, header.size, <<>>, <<>>))

\* MachO.__init__ after the magic check, on the (possibly extracted) data
MachOBody(data, is_little_endian) ==
    MachOCommands(data, is_little_endian, MachOHeader(data))

\* MachO.__init__ on the slice of a universal binary (lines 128-129)
MachOSlice(x, is_little_endian) ==
    IF ~x.ok THEN NoMachO(x.err) ELSE MachOBody(x.data, is_little_endian)

\* MachO.__init__: is_little_endian is fixed from the first four bytes of the
\* file as given, before a universal binary is narrowed to one slice.
MachO(data) ==
    IF Len(data) < 32 THEN NoMachO("File too small to be a valid Mach-O binary")
    ELSE LET little == Unpack32(data, 0, TRUE)
             big    == Unpack32(data, 0, FALSE)
             is_little_endian == little \in {MH_MAGIC, MH_MAGIC_64}
             magic  == IF little \in MAGIC_VALUES THEN little ELSE big
         IN  IF magic \notin MAGIC_VALUES THEN NoMachO("Not a valid Mach-O binary")
             ELSE IF magic \in {FAT_MAGIC, FAT_CIGAM}
             THEN MachOSlice(ExtractArchSlice(data), is_little_endian)
             ELSE MachOBody(data, is_little_endian)

\* the LC_CODE_SIGNATURE commands of a parsed binary, in load-command order
RECURSIVE CodeSignatureCommands(_)
CodeSignatureCommands(cmds) ==
    IF cmds = <<>> THEN <<>>
    ELSE IF cmds[1].cmd = LC_CODE_SIGNATURE
         THEN <<cmds[1]>> \o CodeSignatureCommands(Tail(cmds))
         ELSE CodeSignatureCommands(Tail(cmds))

\* MachO.replace_code_signature: the first LC_CODE_SIGNATURE decides; its
\* (offset, size) are always read little-endian from the command's own bytes.
replace_code_signature(macho, new_signature) ==
    LET cs == CodeSignatureCommands(macho.load_commands)
    IN  IF cs = <<>> THEN [ok |-> FALSE, err |-> "No code signature found in binary", data |-> <<>>]
        ELSE IF Len(cs[1].data) < 16 THEN [ok |-> FALSE, err |-> "struct.error", data |-> <<>>]
        ELSE LET offset == Val(Unpack32(cs[1].data, 8, TRUE))
                 size   == Val(Unpack32(cs[1].data, 12, TRUE))
                 n      == Len(new_signature)
             IN  IF n > size
                 THEN [ok |-> FALSE, err |-> "New signature is larger than the original", data |-> <<>>]
                 ELSE LET r1 == SetSlice(macho.data, offset, offset + n, new_signature)
                          r2 == IF n < size
                                THEN SetSlice(r1, offset + n, offset + size, Zeros(size - n))
                                ELSE r1
                      IN  [ok |-> TRUE, err |-> "", data |-> r2]

\* ---------------------------------------------------------------- hashing and signing primitives

\* SHA-256 digest size
HASH_SIZE == 32

\* weighted sum of the 16 bytes s[k+1..k+16]
Sum16(s, k) ==
    s[k + 1] + 2 * s[k + 2] + 3 * s[k + 3] + 4 * s[k + 4] + 5 * s[k + 5] + 6 * s[k + 6]
    + 7 * s[k + 7] + 8 * s[k + 8] + 9 * s[k + 9] + 10 * s[k + 10] + 11 * s[k + 11]
    + 12 * s[k + 12] + 13 * s[k + 13] + 14 * s[k + 14] + 15 * s[k + 15] + 16 * s[k + 16]

\* weighted sum of the 16-byte blocks lo..hi of s (block 0 is s[1..16])
RECURSIVE BlockSum(_, _, _)
BlockSum(s, lo, hi) ==
    IF lo > hi THEN 0
    ELSE IF lo = hi THEN ((lo % 7) + 1) * Sum16(s, 16 * lo)
    ELSE BlockSum(s, lo, (lo + hi) \div 2) + BlockSum(s, ((lo + hi) \div 2) + 1, hi)

\* weighted sum of the bytes s[k..Len(s)] after the last whole block
RECURSIVE TailSum(_, _)
TailSum(s, k) == IF k > Len(s) THEN 0 ELSE ((k % 16) + 17) * s[k] + TailSum(s, k + 1)

\* a checksum that depends on every byte of s and on where it stands
Checksum(s) == BlockSum(s, 0, (Len(s) \div 16) - 1) + TailSum(s, 16 * (Len(s) \div 16) + 1)

\* hashlib.sha256(s).digest(): 32 bytes that depend on the length of s, on the
\* value of every byte and on where it stands
Sha256(s) == Word(Len(s)) \o Word(Checksum(s)) \o Zeros(HASH_SIZE - 8)

\* private_key.sign(data, padding.PKCS1v15(), hashes.SHA256()): an RSA key of
\* key.size bytes yields key.size bytes that depend on the key and on the
\* data; a key of another kind does not take these arguments (TypeError).
Sign(key, data) ==
    IF key.kind # "rsa" THEN [ok |-> FALSE, err |-> "TypeError", data |-> <<>>]
    ELSE [ok |-> TRUE, err |-> "", data |-> LJust(<<key.id>> \o Sha256(data), key.size)]

\* ---------------------------------------------------------------- src/src/tools/macho/codesign.py

\* "com.development.app"
DEFAULT_IDENTIFIER ==
    <<99, 111, 109, 46, 100, 101, 118, 101, 108, 111, 112, 109, 101, 110, 116, 46, 97, 112, 112>>

\* 4096: the page size of both page hashers
PAGE_SIZE == 4096

\* CodeDirectory.__init__
CodeDirectoryInit(binary_data, identifier) ==
    LET header_size  == 44
        ident_offset == header_size
        n_code_slots == (Len(binary_data) + 4095) \div PAGE_SIZE
        hash_offset  == ((ident_offset + Len(identifier) + 1 + 7) \div 8) * 8
    IN  [binary_data     |-> binary_data,
         identifier      |-> identifier,
         version         |-> <<0, 2, 4, 0>>,
         flags           |-> 0,
         hash_size       |-> HASH_SIZE,
         hash_type       |-> 2,
         platform        |-> 0,
         page_size       |-> 12,
         code_limit_64   |-> Len(binary_data),
         header_size     |-> header_size,
         ident_offset    |-> ident_offset,
         n_special_slots |-> 0,
         n_code_slots    |-> n_code_slots,
         hash_offset     |-> hash_offset,
         length          |-> hash_offset + n_code_slots * HASH_SIZE]

\* one page of CodeDirectory.calculate_hashes / _calculate_code_hashes: the
\* bytes [i*4096, min((i+1)*4096, limit)), zero-padded to a whole page
PaddedPage(data, i, limit) ==
    LJust(Slice(data, i * PAGE_SIZE, Min(i * PAGE_SIZE + PAGE_SIZE, limit)), PAGE_SIZE)

\* CodeDirectory.calculate_hashes
RECURSIVE calculate_hashes(_, _, _)
calculate_hashes(binary_data, i, n_code_slots) ==
    IF i >= n_code_slots THEN <<>>
    ELSE <<Sha256(PaddedPage(binary_data, i, Len(binary_data)))>>
         \o calculate_hashes(binary_data, i + 1, n_code_slots)

RECURSIVE Flatten(_)
Flatten(ss) == IF ss = <<>> THEN <<>> ELSE ss[1] \o Flatten(Tail(ss))

\* zero bytes up to the next multiple of k
PadTo(s, k) == s \o Zeros((k - (Len(s) % k)) % k)

\* CodeDirectory.build: a header of 22 big-endian 32-bit fields, the
\* identifier and its NUL, padding to 8, the code hashes
CodeDirectoryBuild(cd) ==
    LET header == CSMAGIC_CODEDIRECTORY \o Pack32(cd.length, FALSE) \o cd.version
                  \o Pack32(cd.flags, FALSE) \o Pack32(cd.hash_offset, FALSE)
                  \o Pack32(cd.ident_offset, FALSE) \o Pack32(cd.n_special_slots, FALSE)
                  \o Pack32(cd.n_code_slots, FALSE) \o Pack32(cd.code_limit_64, FALSE)
                  \o Pack32(cd.hash_size, FALSE) \o Pack32(cd.hash_type, FALSE)
                  \o Pack32(cd.platform, FALSE) \o Pack32(cd.page_size, FALSE)
                  \o Zeros(4) \o Zeros(4) \o Zeros(4) \o Zeros(4)
                  \o Zeros(4) \o Zeros(4) \o Zeros(4) \o Zeros(4) \o Zeros(4)
    IN  PadTo(header \o cd.identifier \o <<0>>, 8)
        \o Flatten(calculate_hashes(cd.binary_data, 0, cd.n_code_slots))

\* the super-blob CodeSignatureBuilder.build (src/src) emits (lines 138-168):
\* sg is what private_key.sign returned
SrcSuperBlob(cd_data, sg) ==
    IF ~sg.ok THEN [ok |-> FALSE, err |-> sg.err, data |-> <<>>]
    ELSE LET count       == 2
             header_size == 8
             index_size  == count * 8
             cd_offset   == header_size + index_size
             sig_offset  == cd_offset + Len(cd_data)
             total_size  == sig_offset + Len(sg.data) + 8
         IN  [ok |-> TRUE, err |-> "",
              data |-> CSMAGIC_EMBEDDED_SIGNATURE \o Pack32(total_size, FALSE)
                       \o Pack32(count, FALSE)
                       \o Pack32(0, FALSE) \o Pack32(cd_offset, FALSE)
                       \o Pack32(1, FALSE) \o Pack32(sig_offset, FALSE)
                       \o cd_data
                       \o CSMAGIC_BLOBWRAPPER \o Pack32(Len(sg.data) + 8, FALSE)
                       \o sg.data]

\* the CodeDirectory bytes are signed (lines 129-136)
SrcSign(cd_data, private_key) == SrcSuperBlob(cd_data, Sign(private_key, cd_data))

\* CodeSignatureBuilder.build (src/src): super-blob of CodeDirectory and
\* signature wrapper
SrcBuild(binary_data, private_key) ==
    SrcSign(CodeDirectoryBuild(CodeDirectoryInit(binary_data, DEFAULT_IDENTIFIER)), private_key)

\* ---------------------------------------------------------------- tools/macho/codesign.py, tools/macho/structures.py

\* CodeSignatureBuilder._calculate_code_hashes
RECURSIVE CalculateCodeHashes(_, _, _)
CalculateCodeHashes(macho_data, code_limit, i) ==
    IF i >= (code_limit + PAGE_SIZE - 1) \div PAGE_SIZE THEN <<>>
    ELSE <<Sha256(PaddedPage(macho_data, i, code_limit))>>
         \o CalculateCodeHashes(macho_data, code_limit, i + 1)

\* CodeDirectory.to_bytes (dataclass of tools/macho/structures.py)
CodeDirectoryToBytes(cd) ==
    PadTo(cd.magic \o Pack32(cd.length, FALSE) \o cd.version \o Pack32(cd.flags, FALSE)
          \o Pack32(cd.hashOffset, FALSE) \o Pack32(cd.identOffset, FALSE)
          \o Pack32(cd.nSpecialSlots, FALSE) \o Pack32(cd.nCodeSlots, FALSE)
          \o Pack32(cd.codeLimit, FALSE)
          \o <<cd.hashSize, cd.hashType, cd.platform, cd.pageSize>>
          \o Zeros(4) \o Zeros(4) \o Zeros(4) \o Zeros(4)
          \o Zeros(8) \o Zeros(8) \o Zeros(8) \o Zeros(8) \o Zeros(8) \o Zeros(8)
          \o cd.identifier \o <<0>>, 4)
    \o Flatten(cd.hashes)

\* CodeDirectory.create (tools/macho/structures.py)
CodeDirectoryCreate(identifier, code_limit, code_hashes) ==
    LET base_size         == 44
        identifier_offset == base_size
        hash_offset       == base_size + ((Len(identifier) + 1 + 3) \div 4) * 4
        total_size        == hash_offset + Len(code_hashes) * 32
    IN  [magic         |-> CSMAGIC_CODEDIRECTORY,
         length        |-> total_size,
         version       |-> <<0, 2, 4, 0>>,
         flags         |-> 6,
         hashOffset    |-> hash_offset,
         identOffset   |-> identifier_offset,
         nSpecialSlots |-> 0,
         nCodeSlots    |-> Len(code_hashes),
         codeLimit     |-> code_limit,
         hashSize      |-> 32,
         hashType      |-> 2,
         platform      |-> 0,
         pageSize      |-> 12,
         identifier    |-> identifier,
         hashes        |-> code_hashes]

\* CodeDirectory.from_bytes (tools/macho/structures.py): struct.unpack of the
\* format '>IIIIIIII4B' takes exactly 8 * 4 + 4 = 36 bytes and is given
\* data[:44] (struct.error); its twelve values are bound to thirteen names
\* (ValueError)
CodeDirectoryFromBytes(data) ==
    IF Len(data) < 44 THEN Failure("Data too small for CodeDirectory")
    ELSE IF Len(Slice(data, 0, 44)) # 8 * 4 + 4 THEN Failure("struct.error")
    ELSE Failure("ValueError")

\* the CodeDirectory that CodeSignatureBuilder.build constructs (lines 120-147)
BuildCodeDirectory(code_limit, code_hashes) ==
    [magic         |-> CSMAGIC_CODEDIRECTORY,
     length        |-> 0,
     version       |-> <<0, 2, 4, 0>>,
     flags         |-> 6,
     hashOffset    |-> 0,
     identOffset   |-> 0,
     nSpecialSlots |-> 0,
     nCodeSlots    |-> Len(code_hashes),
     codeLimit     |-> code_limit,
     hashSize      |-> HASH_SIZE,
     hashType      |-> 2,
     platform      |-> 0,
     pageSize      |-> 12,
     identifier    |-> <<42>>,
     hashes        |-> code_hashes]

\* the super-blob CodeSignatureBuilder.build (tools/macho) emits (lines
\* 149-185): one index entry, the CodeDirectory, and the code hashes once more
ToolsSuperBlob(cd_data, code_hashes) ==
    LET base_size == 8 + 8
        cd_offset == base_size
    IN  CSMAGIC_EMBEDDED_SIGNATURE \o Pack32(base_size + Len(cd_data), FALSE)
        \o Pack32(1, FALSE)
        \o Pack32(0, FALSE) \o Pack32(cd_offset, FALSE)
        \o cd_data
        \o Flatten(code_hashes)

\* the CodeDirectory is created from the code hashes and serialised
ToolsDirectory(code_limit, code_hashes) ==
    ToolsSuperBlob(CodeDirectoryToBytes(BuildCodeDirectory(code_limit, code_hashes)),
                   code_hashes)

\* CodeSignatureBuilder.build (tools/macho/codesign.py)
ToolsBuild(macho_data) ==
    ToolsDirectory(Len(macho_data), CalculateCodeHashes(macho_data, Len(macho_data), 0))

\* SuperBlob.from_bytes (tools/macho/structures.py): the attributes of the
\* dataclass are magic, length, count and blobs
SuperBlobFromBytes(data) ==
    IF Len(data) < 12 THEN Failure("SuperBlob data too short")
    ELSE [ok     |-> TRUE,
          err    |-> "",
          magic  |-> Unpack32(data, 0, FALSE),
          length |-> Val(Unpack32(data, 4, FALSE)),
          count  |-> Val(Unpack32(data, 8, FALSE)),
          blobs  |-> [k \in 1..Min(Val(Unpack32(data, 8, FALSE)), (Len(data) - 12) \div 8) |->
                         [type   |-> Val(Unpack32(data, 12 + 8 * (k - 1), FALSE)),
                          offset |-> Val(Unpack32(data, 12 + 8 * (k - 1) + 4, FALSE))]]]

\* CodeSignatureBuilder.verify on a parsed super-blob: every exception is
\* turned into False.  The loop reads superblob.index, which the SuperBlob
\* dataclass does not have (AttributeError).  The slot types are 0 for the
\* CodeDirectory and 0x10000 for the signature.
VerifyParsed(signature, superblob, certificate) ==
    IF ~superblob.ok THEN FALSE
    ELSE IF "index" \notin DOMAIN superblob THEN FALSE
    ELSE LET cds  == {k \in 1..Len(superblob.index) : superblob.index[k].type = 0}
             sigs == {k \in 1..Len(superblob.index) : superblob.index[k].type = 65536}
         IN  IF cds = {} \/ sigs = {} THEN FALSE
             ELSE LET cd_offset  == superblob.index[CHOOSE k \in cds : \A j \in cds : j <= k].offset
                      sig_offset == superblob.index[CHOOSE k \in sigs : \A j \in sigs : j <= k].offset
                  IN  /\ cd_offset + 8 <= Len(signature)
                      /\ sig_offset + 8 <= Len(signature)
                      /\ Unpack32(signature, cd_offset, FALSE) = CSMAGIC_CODEDIRECTORY
                      /\ Unpack32(signature, sig_offset, FALSE) = CSMAGIC_BLOBWRAPPER
                      /\ Sign(certificate,
                              Sha256(Slice(signature, cd_offset,
                                           cd_offset + Val(Unpack32(signature, cd_offset + 4, FALSE))))).ok
                      /\ Slice(signature, sig_offset + 8,
                               sig_offset + Val(Unpack32(signature, sig_offset + 4, FALSE)))
                             = Sign(certificate,
                                    Sha256(Slice(signature, cd_offset,
                                                 cd_offset + Val(Unpack32(signature, cd_offset + 4, FALSE))))).data

\* CodeSignatureBuilder.verify(signature) (tools/macho/codesign.py); the
\* certificate's public key is the one of the signing identity
ToolsVerify(signature, certificate) ==
    VerifyParsed(signature, SuperBlobFromBytes(signature), certificate)

\* ---------------------------------------------------------------- tools/macho/parser.py

NoParser(msg) ==
    [ok |-> FALSE, err |-> msg, is_64bit |-> FALSE, is_little_endian |-> FALSE,
     ncmds |-> 0, sizeofcmds |-> 0, header_size |-> 0, load_commands |-> <<>>,
     code_signature_offset |-> -1, code_signature_size |-> -1]

\* bytes.decode('utf-8') of a name: bytes below 128 always decode
Decodable(name) == \A k \in 1..Len(name) : name[k] < 128

\* MachOParser._parse_load_commands; cso and css are code_signature_offset and
\* code_signature_size (-1 for None)
RECURSIVE ParserLoadCommands(_, _, _, _, _, _, _, _)
ParserLoadCommands(macho_data, le, i, ncmds, offset, cmds, cso, css) ==
    IF i >= ncmds
    THEN [ok |-> TRUE, err |-> "", load_commands |-> cmds, cso |-> cso, css |-> css]
    ELSE IF offset + 8 > Len(macho_data)
    THEN [ok |-> FALSE, err |-> "Unexpected end of file while parsing load command",
          load_commands |-> cmds, cso |-> cso, css |-> css]
    ELSE LET cmd          == Unpack32(macho_data, offset, le)
             cmdsize      == Val(Unpack32(macho_data, offset + 4, le))
             command_data == Slice(macho_data, offset, offset + cmdsize)
             lc           == [cmd |-> cmd, cmdsize |-> cmdsize, offset |-> offset,
                              data |-> command_data]
         IN  IF cmdsize < 8
             THEN [ok |-> FALSE, err |-> "Invalid load command size",
                   load_commands |-> cmds, cso |-> cso, css |-> css]
             ELSE IF offset + cmdsize > Len(macho_data)
             THEN [ok |-> FALSE, err |-> "Load command extends beyond end of file",
                   load_commands |-> cmds, cso |-> cso, css |-> css]
             ELSE IF cmd = LC_SEGMENT_64 /\ ~Decodable(Slice(command_data, 8, 24))
             THEN [ok |-> FALSE, err |-> "UnicodeDecodeError",
                   load_commands |-> cmds, cso |-> cso, css |-> css]
             ELSE IF cmd = LC_CODE_SIGNATURE /\ cmdsize >= 16
             THEN ParserLoadCommands(macho_data, le, i + 1, ncmds, offset + cmdsize,
                      Append(cmds, lc),
                      Val(Unpack32(command_data, 8, le)), Val(Unpack32(command_data, 12, le)))
             ELSE ParserLoadCommands(macho_data, le, i + 1, ncmds, offset + cmdsize,
                      Append(cmds, lc), cso, css)

\* the parser object once _parse_load_commands has returned
ParserParsed(macho_data, is_64bit, le, header_size, ncmds, r) ==
    IF ~r.ok THEN NoParser(r.err)
    ELSE [ok |-> TRUE, err |-> "", is_64bit |-> is_64bit,
          is_little_endian |-> le, ncmds |-> ncmds,
          sizeofcmds |-> Val(Unpack32(macho_data, 20, le)),
          header_size |-> header_size,
          load_commands |-> r.load_commands,
          code_signature_offset |-> r.cso,
          code_signature_size |-> r.css]

\* MachOParser._parse_header from the size check on, then _parse_load_commands
ParserHeader(macho_data, is_64bit, le, header_size) ==
    IF Len(macho_data) < header_size
    THEN NoParser("File is too small for Mach-O header")
    ELSE ParserParsed(macho_data, is_64bit, le, header_size,
                      Val(Unpack32(macho_data, 16, le)),
                      ParserLoadCommands(macho_data, le, 0, Val(Unpack32(macho_data, 16, le)),
                                         header_size, <<>>, -1, -1))

\* MachOParser.__init__: _parse_header, then _parse_load_commands
MachOParser(macho_data) ==
    LET magic == IF Len(macho_data) >= 4 THEN Unpack32(macho_data, 0, FALSE) ELSE <<>>
    IN  IF magic \notin {MH_MAGIC, MH_CIGAM, MH_MAGIC_64, MH_CIGAM_64}
        THEN NoParser("Invalid Mach-O magic")
        ELSE ParserHeader(macho_data, magic \in {MH_MAGIC_64, MH_CIGAM_64},
                          magic \in {MH_CIGAM, MH_CIGAM_64},
                          IF magic \in {MH_MAGIC_64, MH_CIGAM_64} THEN 32 ELSE 28)

\* ---------------------------------------------------------------- src/src/tools/macho/dylib.py

\* struct.pack_into('>I', buf, off, value): the buffer must already hold the
\* four bytes that are overwritten (struct.error otherwise)
PackInto(buf, off, w) ==
    IF off + 4 > Len(buf) THEN [ok |-> FALSE, data |-> buf]
    ELSE [ok |-> TRUE, data |-> SetSlice(buf, off, off + 4, w)]

\* pack_into applied to the result of an earlier pack_into
ThenPackInto(r, off, w) == IF r.ok THEN PackInto(r.data, off, w) ELSE r

\* DylibInjector._parse_header: the header size, or 0 when the constructor raises
DylibHeaderSize(macho_data) ==
    IF Len(macho_data) < 4 THEN 0
    ELSE LET magic == Unpack32(macho_data, 0, FALSE)
         IN  IF magic = MH_MAGIC_64 THEN 32 ELSE IF magic = MH_MAGIC THEN 28 ELSE 0

\* the walk over ncmds commands that finds the end of the load-command table
\* (inject_dylib lines 89-93); -1 when struct.unpack is given fewer than 8 bytes
RECURSIVE DylibEndOfCommands(_, _, _)
DylibEndOfCommands(macho_data, n, offset) ==
    IF n = 0 THEN offset
    ELSE IF offset + 8 > Len(macho_data) THEN -1
    ELSE DylibEndOfCommands(macho_data, n - 1,
                            offset + Val(Unpack32(macho_data, offset + 4, FALSE)))

\* DylibInjector._update_segment_offsets
RECURSIVE UpdateSegmentOffsets(_, _, _, _, _)
UpdateSegmentOffsets(macho_data, n, offset, insert_point, shift_amount) ==
    IF n = 0 THEN [ok |-> TRUE, data |-> macho_data]
    ELSE IF offset + 8 > Len(macho_data) THEN [ok |-> FALSE, data |-> macho_data]
    ELSE LET cmd     == Unpack32(macho_data, offset, FALSE)
             cmdsize == Val(Unpack32(macho_data, offset + 4, FALSE))
         IN  IF cmd = LC_SEGMENT_64
             THEN IF offset + 48 > Len(macho_data) THEN [ok |-> FALSE, data |-> macho_data]
                  ELSE LET fileoff == Val64(Unpack64(macho_data, offset + 40, FALSE))
                           moved   == IF fileoff > insert_point
                                      THEN SetSlice(macho_data, offset + 40, offset + 48,
                                                    Pack64(0, fileoff + shift_amount, FALSE))
                                      ELSE macho_data
                       IN  UpdateSegmentOffsets(moved, n - 1, offset + cmdsize,
                                                insert_point, shift_amount)
             ELSE UpdateSegmentOffsets(macho_data, n - 1, offset + cmdsize,
                                       insert_point, shift_amount)

\* DylibInjector._update_header_counts
UpdateHeaderCounts(macho_data, size_increase) ==
    LET ncmds      == Val(Unpack32(macho_data, 16, FALSE))
        sizeofcmds == Val(Unpack32(macho_data, 20, FALSE))
    IN  SetSlice(SetSlice(macho_data, 16, 20, Pack32(ncmds + 1, FALSE)),
                 20, 24, Pack32(sizeofcmds + size_increase, FALSE))

\* the new load command of inject_dylib (lines 72-87): the six header fields
\* are packed into cmd_data = bytearray(), then the padded path is appended
NewDylibCommand(dylib_path, weak) ==
    LET path_bytes       == dylib_path \o <<0>>
        padded_path_size == ((Len(path_bytes) + 7) \div 8) * 8
        cmd_size         == 24 + padded_path_size
        cmd              == IF weak THEN LC_LOAD_WEAK_DYLIB ELSE LC_LOAD_DYLIB
        p1 == PackInto(<<>>, 0, cmd)
        p2 == ThenPackInto(p1, 4, Pack32(cmd_size, FALSE))
        p3 == ThenPackInto(p2, 8, Pack32(24, FALSE))
        p4 == ThenPackInto(p3, 12, Pack32(2, FALSE))
        p5 == ThenPackInto(p4, 16, Pack32(65536, FALSE))
        p6 == ThenPackInto(p5, 20, Pack32(65536, FALSE))
    IN  [ok |-> p6.ok, data |-> p6.data \o LJust(path_bytes, padded_path_size)]

\* what inject_dylib returns after _update_segment_offsets
Injected(u) ==
    IF ~u.ok THEN [ok |-> FALSE, err |-> "struct.error", data |-> <<>>]
    ELSE [ok |-> TRUE, err |-> "", data |-> u.data]

\* inject_dylib lines 95-105: the data after the command table is shifted, the
\* command inserted at offset, the header counts and segment offsets updated
InjectAt(macho_data, cmd_data, ncmds, offset) ==
    IF offset < 0 THEN [ok |-> FALSE, err |-> "struct.error", data |-> <<>>]
    ELSE Injected(UpdateSegmentOffsets(
             UpdateHeaderCounts(
                 SetSlice(SetSlice(macho_data, offset + Len(cmd_data), Len(macho_data),
                                   Slice(macho_data, offset, Len(macho_data))),
                          offset, offset + Len(cmd_data), cmd_data),
                 Len(cmd_data)),
             ncmds + 1, DylibHeaderSize(macho_data), offset, Len(cmd_data)))

\* inject_dylib lines 89-93: the end of the load-command table is found
InjectCommand(macho_data, c) ==
    IF ~c.ok THEN [ok |-> FALSE, err |-> "struct.error", data |-> <<>>]
    ELSE InjectAt(macho_data, c.data, Val(Unpack32(macho_data, 16, FALSE)),
                  DylibEndOfCommands(macho_data, Val(Unpack32(macho_data, 16, FALSE)),
                                     DylibHeaderSize(macho_data)))

\* DylibInjector.inject_dylib on a buffer the constructor accepted (at least
\* 24 bytes of header are assumed present)
inject_dylib(macho_data, dylib_path, weak) ==
    InjectCommand(macho_data, NewDylibCommand(dylib_path, weak))

\* bytearray.find(b'\0', start): the index of the first NUL at or after start,
\* -1 if there is none
RECURSIVE FindNul(_, _)
FindNul(data, start) ==
    IF start >= Len(data) THEN -1
    ELSE IF data[start + 1] = 0 THEN start
    ELSE FindNul(data, start + 1)

\* the command at offset names dylib_path: it is zeroed in place and
\* _update_header_counts(-cmdsize) is called (remove_dylib lines 124-127);
\* pack_into('>I', ...) of a negative number raises struct.error
RemoveAt(macho_data, offset, cmdsize) ==
    IF Val(Unpack32(macho_data, 20, FALSE)) - cmdsize < 0
    THEN [ok |-> FALSE, err |-> "struct.error", data |-> <<>>]
    ELSE [ok |-> TRUE, err |-> "",
          data |-> UpdateHeaderCounts(
                       SetSlice(macho_data, offset, offset + cmdsize, Zeros(cmdsize)),
                       0 - cmdsize)]

\* the loop of DylibInjector.remove_dylib over n more commands (lines 114-130)
RECURSIVE RemoveLoop(_, _, _, _)
RemoveLoop(macho_data, dylib_path, n, offset) ==
    IF n = 0 THEN [ok |-> FALSE, err |-> "Dylib not found in binary", data |-> <<>>]
    ELSE IF offset + 8 > Len(macho_data)
    THEN [ok |-> FALSE, err |-> "struct.error", data |-> <<>>]
    ELSE LET cmd     == Unpack32(macho_data, offset, FALSE)
             cmdsize == Val(Unpack32(macho_data, offset + 4, FALSE))
         IN  IF cmd \notin {LC_LOAD_DYLIB, LC_LOAD_WEAK_DYLIB}
             THEN RemoveLoop(macho_data, dylib_path, n - 1, offset + cmdsize)
             ELSE IF offset + 12 > Len(macho_data)
             THEN [ok |-> FALSE, err |-> "struct.error", data |-> <<>>]
             ELSE LET path_start == offset + Val(Unpack32(macho_data, offset + 8, FALSE))
                      path_end   == FindNul(macho_data, path_start)
                      path       == Slice(macho_data, path_start,
                                          IF path_end = -1 THEN Len(macho_data) - 1
                                                           ELSE path_end)
                  IN  IF ~Decodable(path)
                      THEN [ok |-> FALSE, err |-> "UnicodeDecodeError", data |-> <<>>]
                      ELSE IF path = dylib_path
                      THEN RemoveAt(macho_data, offset, cmdsize)
                      ELSE RemoveLoop(macho_data, dylib_path, n - 1, offset + cmdsize)

\* DylibInjector(macho_data).remove_dylib(dylib_path)
remove_dylib(macho_data, dylib_path) ==
    IF DylibHeaderSize(macho_data) = 0
    THEN [ok |-> FALSE, err |-> "Invalid Mach-O file", data |-> <<>>]
    ELSE RemoveLoop(macho_data, dylib_path, Val(Unpack32(macho_data, 16, FALSE)),
                    DylibHeaderSize(macho_data))

\* ---------------------------------------------------------------- input binaries

\* a mach_header_64 (32 bytes) in the given byte order
Header64(le, cputype, ncmds, sizeofcmds) ==
    PackWord(MH_MAGIC_64, le) \o PackWord(cputype, le) \o Pack32(3, le) \o Pack32(2, le)
    \o Pack32(ncmds, le) \o Pack32(sizeofcmds, le) \o PackWord(<<0, 32, 0, 133>>, le)
    \o Pack32(0, le)

\* a segment_command_64 without sections (72 bytes); vmaddr and vmsize are
\* <<high 32 bits, low 32 bits>>, prot is <<maxprot, initprot>>
Segment64(le, segname, vmaddr, vmsize, fileoff, filesize, prot) ==
    PackWord(LC_SEGMENT_64, le) \o Pack32(72, le) \o LJust(segname, 16)
    \o Pack64(vmaddr[1], vmaddr[2], le) \o Pack64(vmsize[1], vmsize[2], le)
    \o Pack64(0, fileoff, le) \o Pack64(0, filesize, le)
    \o Pack32(prot[1], le) \o Pack32(prot[2], le) \o Pack32(0, le) \o Pack32(0, le)

\* a segment_command_64 followed by one section_64 (72 + 80 bytes); the
\* section's data stands at sect_offset
SectionSegment64(le, segname, fileoff, filesize, sectname, sect_offset, sect_size) ==
    PackWord(LC_SEGMENT_64, le) \o Pack32(152, le) \o LJust(segname, 16)
    \o Pack64(1, 0, le) \o Pack64(0, 4096, le)
    \o Pack64(0, fileoff, le) \o Pack64(0, filesize, le)
    \o Pack32(7, le) \o Pack32(5, le) \o Pack32(1, le) \o Pack32(0, le)
    \o LJust(sectname, 16) \o LJust(segname, 16)
    \o Pack64(1, sect_offset, le) \o Pack64(0, sect_size, le)
    \o Pack32(sect_offset, le) \o Pack32(2, le) \o Zeros(24)

\* a linkedit_data_command LC_CODE_SIGNATURE (16 bytes)
CodeSignatureCommand(le, dataoff, datasize) ==
    PackWord(LC_CODE_SIGNATURE, le) \o Pack32(16, le) \o Pack32(dataoff, le)
    \o Pack32(datasize, le)

\* a file body: bytes that are not all equal, so that a moved or overwritten
\* byte shows
Body(from, to) == [k \in 1..Max(0, to - from) |-> ((from + k) % 7) + 1]

\* create_macho_binary of src/src/tools/create_test_ipa.py: 0x2000 bytes, the
\* signature region (0x2000, 0x1000) starts where the file ends
TestBinary ==
    LJust(Header64(TRUE, CPU_X86_64, 4, 448)
          \o Segment64(TRUE, SEG_PAGEZERO, <<0, 0>>, <<1, 0>>, 0, 0, <<0, 0>>)
          \o Segment64(TRUE, SEG_TEXT, <<1, 0>>, <<0, 4096>>, 0, 4096, <<7, 5>>)
          \o Segment64(TRUE, SEG_LINKEDIT, <<1, 16777216>>, <<0, 4096>>, 4096, 4096, <<7, 1>>)
          \o CodeSignatureCommand(TRUE, 8192, 4096),
          8192)

\* a thin 64-bit binary of total bytes with __TEXT over [0, linkedit) and
\* __LINKEDIT over [linkedit, total); sig is <<>> or <<dataoff, datasize>>
ThinBinary(le, total, linkedit, sig) ==
    LET cmds == Segment64(le, SEG_TEXT, <<1, 0>>, <<0, 4096>>, 0, linkedit, <<7, 5>>)
                \o Segment64(le, SEG_LINKEDIT, <<1, 16777216>>, <<0, 4096>>, linkedit, total - linkedit, <<7, 1>>)
                \o (IF sig = <<>> THEN <<>> ELSE CodeSignatureCommand(le, sig[1], sig[2]))
        head == Header64(le, CPU_ARM64, IF sig = <<>> THEN 2 ELSE 3, Len(cmds)) \o cmds
    IN  head \o Zeros(256 - Len(head)) \o Body(256, total)

\* the binary of tests/test_signer.py test_binary_signing: the four magic
\* bytes fe ed fa cf and 100 zero bytes
MinimalHeader == MH_MAGIC_64 \o Zeros(100)

\* a header that announces ncmds commands in sizeofcmds bytes, followed by the
\* given command bytes and total - 32 - Len(cmds) zero bytes
RawBinary(le, ncmds, sizeofcmds, cmds, total) ==
    LJust(Header64(le, CPU_ARM64, ncmds, sizeofcmds) \o cmds, total)

\* a universal binary: fat_header, the fat_arch entries and the slices; each
\* arch is <<cputype, offset, size>>
RECURSIVE FatArchs(_)
FatArchs(archs) ==
    IF archs = <<>> THEN <<>>
    ELSE PackWord(archs[1][1], FALSE) \o Pack32(0, FALSE) \o Pack32(archs[1][2], FALSE)
         \o Pack32(archs[1][3], FALSE) \o Pack32(0, FALSE) \o FatArchs(Tail(archs))

InputNames ==
    {"test_binary", "signed_4k", "signed_short_page", "signed_1k", "signed_exact",
     "signed_small_region", "signed_region_past_end", "signed_region_in_header",
     "unsigned_minimal", "unsigned_1k", "unsigned_big_endian", "section_after_commands",
     "dylib_big_endian",
     "zero_cmdsize", "command_crosses_region", "truncated_commands",
     "too_small", "bad_magic", "fat_arm64", "fat_arm64_signed"}

Input(n) ==
    CASE n = "test_binary"            -> TestBinary
      [] n = "signed_4k"              -> ThinBinary(TRUE, 4096, 2048, <<3584, 512>>)
      [] n = "signed_short_page"      -> ThinBinary(TRUE, 4608, 4000, <<4096, 512>>)
      [] n = "signed_1k"              -> ThinBinary(TRUE, 1024, 512, <<512, 512>>)
      [] n = "signed_exact"           -> ThinBinary(TRUE, 1024, 512, <<780, 244>>)
      [] n = "signed_small_region"    -> ThinBinary(TRUE, 640, 512, <<576, 64>>)
      [] n = "signed_region_past_end" -> ThinBinary(TRUE, 1024, 512, <<900, 512>>)
      [] n = "signed_region_in_header" -> ThinBinary(TRUE, 1024, 512, <<0, 512>>)
      [] n = "unsigned_minimal"       -> MinimalHeader
      [] n = "unsigned_1k"            -> ThinBinary(TRUE, 1024, 512, <<>>)
      [] n = "unsigned_big_endian"    -> ThinBinary(FALSE, 1024, 512, <<>>)
      [] n = "section_after_commands" ->
             LET head == Header64(FALSE, CPU_ARM64, 1, 152)
                         \o SectionSegment64(FALSE, SEG_TEXT, 0, 512, SECT_TEXT, 192, 320)
             IN  head \o Zeros(192 - Len(head)) \o Body(192, 512)
      [] n = "dylib_big_endian"       ->
             LET head == Header64(FALSE, CPU_ARM64, 3, 176)
                         \o Segment64(FALSE, SEG_TEXT, <<1, 0>>, <<0, 4096>>, 0, 256, <<7, 5>>)
                         \o LC_LOAD_DYLIB \o Pack32(32, FALSE) \o Pack32(24, FALSE)
                         \o Pack32(2, FALSE) \o Pack32(65536, FALSE) \o Pack32(65536, FALSE)
                         \o LJust(<<97, 46, 100, 121, 108, 105, 98>>, 8)
                         \o Segment64(FALSE, SEG_LINKEDIT, <<1, 16777216>>, <<0, 4096>>, 256, 128, <<7, 1>>)
             IN  head \o Zeros(256 - Len(head)) \o Body(256, 384)
      [] n = "zero_cmdsize"           -> RawBinary(TRUE, 3, 24, Pack32(50, TRUE) \o Pack32(0, TRUE), 128)
      [] n = "command_crosses_region" ->
             RawBinary(TRUE, 1, 16, Segment64(TRUE, SEG_LINKEDIT, <<1, 0>>, <<0, 4096>>, 0, 128, <<7, 1>>), 128)
      [] n = "truncated_commands"     ->
             RawBinary(TRUE, 10, 720, Segment64(TRUE, SEG_TEXT, <<1, 0>>, <<0, 4096>>, 0, 104, <<7, 5>>), 104)
      [] n = "too_small"              -> PackWord(MH_MAGIC_64, TRUE) \o Zeros(16)
      [] n = "bad_magic"              -> <<77, 90, 144, 0>> \o Zeros(60)
      [] n = "fat_arm64"              ->
             PackWord(FAT_MAGIC, FALSE) \o Pack32(1, FALSE)
             \o FatArchs(<<<<CPU_ARM64, 64, 640>>>>) \o Zeros(36)
             \o ThinBinary(TRUE, 640, 512, <<>>)
      [] n = "fat_arm64_signed"       ->
             PackWord(FAT_MAGIC, FALSE) \o Pack32(1, FALSE)
             \o FatArchs(<<<<CPU_ARM64, 64, 1024>>>>) \o Zeros(36)
             \o ThinBinary(TRUE, 1024, 512, <<512, 512>>)

\* the signing identities: an RSA key whose signatures are 64 bytes long, and
\* a key that is not RSA
Keys ==
    {[kind |-> "rsa", size |-> 64, id |-> 1],
     [kind |-> "ec", size |-> 32, id |-> 3]}

\* ---------------------------------------------------------------- signing one binary

\* what the last parse recorded: the load commands with the offset each was
\* read at, and the header fields that bound the command table
ParseRecord(cls, accepted, header_size, ncmds, sizeofcmds, cmds) ==
    [class |-> cls, accepted |-> accepted, header_size |-> header_size,
     ncmds |-> ncmds, sizeofcmds |-> sizeofcmds,
     load_commands |-> [k \in 1..Len(cmds) |->
                           [cmd |-> cmds[k].cmd, cmdsize |-> cmds[k].cmdsize,
                            offset |-> cmds[k].offset]]]

NoParse == ParseRecord("none", FALSE, 0, 0, 0, <<>>)

MachORecord(m) ==
    IF m.ok THEN ParseRecord("MachO", TRUE, m.header.size, m.header.ncmds,
                             m.header.sizeofcmds, m.load_commands)
    ELSE ParseRecord("MachO", FALSE, 0, 0, 0, <<>>)

ParserRecord(m) ==
    ParseRecord("MachOParser", m.ok, m.header_size, m.ncmds, m.sizeofcmds, m.load_commands)

\* the outcome of one sign_binary call: file is the content of binary_path
\* when the call returns, sig the super-blob that was built (<<>> if none), out
\* the signed buffer that was produced (<<>> if none), sigpos the position at
\* which the super-blob stands in out (-1 if none)
Outcome(ok, err, file, sig, out, sigpos, parse) ==
    [ok |-> ok, err |-> err, file |-> file, sig |-> sig, out |-> out,
     sigpos |-> sigpos, parse |-> parse]

\* the position at which replace_code_signature writes: the recorded offset,
\* clamped to the end of the buffer by the slice assignment
ReplacePosition(macho) ==
    Min(Val(Unpack32(CodeSignatureCommands(macho.load_commands)[1].data, 8, TRUE)),
        Len(macho.data))

\* the three steps shared by the sign_binary functions of windows_signer.py,
\* enhanced_signer.py and archive/sign_ipa.py: MachO(data),
\* CodeSignatureBuilder(data).build(certificate, private_key),
\* macho.replace_code_signature(new_signature), then the file is written
\* SignedOutcome with the file opened for writing before the signature is
\* placed: a failed replace_code_signature leaves the signature appended
SignedOutcomeWriteFirst(binary_data, macho, built, rep, record) ==
    IF ~macho.ok
    THEN Outcome(FALSE, macho.err, binary_data, <<>>, <<>>, -1, record)
    ELSE IF ~built.ok
    THEN Outcome(FALSE, built.err, binary_data, <<>>, <<>>, -1, record)
    ELSE IF ~rep.ok
    THEN Outcome(FALSE, rep.err, binary_data \o built.data, built.data, <<>>, -1, record)
    ELSE Outcome(TRUE, "", rep.data, built.data, rep.data, ReplacePosition(macho), record)

\* what sign_binary returns and leaves in the file after the three steps
SignedOutcome(binary_data, macho, built, rep, record) ==
    IF ~macho.ok
    THEN Outcome(FALSE, macho.err, binary_data, <<>>, <<>>, -1, record)
    ELSE IF ~built.ok
    THEN Outcome(FALSE, built.err, binary_data, <<>>, <<>>, -1, record)
    ELSE IF ~rep.ok
    THEN Outcome(FALSE, rep.err, binary_data, built.data, <<>>, -1, record)
    ELSE Outcome(TRUE, "", rep.data, built.data, rep.data, ReplacePosition(macho), record)

\* macho.replace_code_signature(new_signature) and what the caller makes of it
ReplaceStep(binary_data, macho, built) ==
    SignedOutcome(binary_data, macho, built, replace_code_signature(macho, built.data),
                  MachORecord(macho))

ParseBuildReplace(binary_data, private_key) ==
    ReplaceStep(binary_data, MachO(binary_data), SrcBuild(binary_data, private_key))

\* WindowsIPASigner.sign_binary (the file exists)
windows_sign_binary(binary_data, private_key) ==
    IF Len(binary_data) < 4
    THEN Outcome(FALSE, "Binary file too small", binary_data, <<>>, <<>>, -1, NoParse)
    ELSE ParseBuildReplace(binary_data, private_key)

\* sign_binary of archive/sign_ipa.py
archive_sign_binary(binary_data, private_key) == ParseBuildReplace(binary_data, private_key)

\* EnhancedIPASigner.sign_binary without the cache lookup: lines 197-222
enhanced_sign_uncached(content, private_key) ==
    IF Len(content) < 4
    THEN Outcome(FALSE, "Binary file too small", content, <<>>, <<>>, -1, NoParse)
    ELSE ParseBuildReplace(content, private_key)

\* the entry of binary_cache for a content hash, as a set of at most one value
CacheHit(binary_cache, content_hash) == {e \in binary_cache : e.hash = content_hash}

\* EnhancedIPASigner.sign_binary: a cached signed binary is written without
\* signing again
enhanced_sign_binary(content, private_key, binary_cache) ==
    LET hit == CacheHit(binary_cache, Sha256(content))
    IN  IF hit # {}
        THEN LET signed == (CHOOSE e \in hit : TRUE).signed
             IN  Outcome(TRUE, "cached", signed, <<>>, signed, -1, NoParse)
        ELSE enhanced_sign_uncached(content, private_key)

\* a cache that takes an entry from every call, failed ones included
enhanced_cache_after_any_outcome(content, binary_cache, o) ==
    binary_cache \cup {[hash |-> Sha256(content), signed |-> o.out]}

\* binary_cache after EnhancedIPASigner.sign_binary
enhanced_cache_after(content, binary_cache, o) ==
    IF o.ok /\ o.err # "cached"
    THEN binary_cache \cup {[hash |-> Sha256(content), signed |-> o.out]}
    ELSE binary_cache

\* write_signature of sign_ipa.py: MachOParser is given the path string, not
\* the file's bytes; int.from_bytes of a str slice raises TypeError, which
\* write_signature catches and turns into False before the file is opened
write_signature(binary_data, signature) ==
    [ok |-> FALSE, err |-> "TypeError", file |-> binary_data]

\* what sign_binary of sign_ipa.py makes of write_signature's result
RootOutcome(w, signature) ==
    IF ~w.ok
    THEN Outcome(FALSE, "Failed to write signature to binary", w.file, signature,
                 <<>>, -1, NoParse)
    ELSE Outcome(TRUE, "", w.file, signature, w.file, -1, NoParse)

\* write_signature(binary_path, signature)
RootWrite(binary_data, signature) ==
    RootOutcome(write_signature(binary_data, signature), signature)

\* sign_binary of sign_ipa.py: the signature is built, then write_signature
root_sign_binary(binary_data) == RootWrite(binary_data, ToolsBuild(binary_data))

\* the file is rewritten as the old bytes followed by the signature
PysignWrite(macho_data, parser, signature, record) ==
    IF ~parser.ok
    THEN Outcome(FALSE, parser.err, macho_data, <<>>, <<>>, -1, record)
    ELSE Outcome(TRUE, "", macho_data \o signature, signature, macho_data \o signature,
                 Len(macho_data), record)

\* builder.build() on the parsed binary
PysignBuild(macho_data, parser) ==
    PysignWrite(macho_data, parser, ToolsBuild(macho_data), ParserRecord(parser))

\* IPASigner.sign_binary of pysign.py, with the MachOParser and the
\* three-argument CodeSignatureBuilder whose interface it calls
\* (tools/macho)
pysign_sign_binary(macho_data) == PysignBuild(macho_data, MachOParser(macho_data))

\* what IPASigner.inject_dylib makes of DylibInjector.inject_dylib's result
InjectOutcome(macho_data, r) ==
    IF ~r.ok THEN Outcome(FALSE, r.err, macho_data, <<>>, <<>>, -1, NoParse)
    ELSE Outcome(TRUE, "", r.data, <<>>, r.data, -1, NoParse)

\* IPASigner.inject_dylib of pysign.py
pysign_inject_dylib(macho_data, dylib_path, weak) ==
    IF DylibHeaderSize(macho_data) = 0
    THEN Outcome(FALSE, "Invalid Mach-O file", macho_data, <<>>, <<>>, -1, NoParse)
    ELSE InjectOutcome(macho_data, inject_dylib(macho_data, dylib_path, weak))

\* ---------------------------------------------------------------- the state machine

\* operations applied to one binary in one behaviour
MaxSteps == 2

\* "@executable_path/plugin.dylib" and "a.dylib"
DylibPaths ==
    {<<64, 101, 120, 101, 99, 117, 116, 97, 98, 108, 101, 95, 112, 97, 116, 104, 47,
       112, 108, 117, 103, 105, 110, 46, 100, 121, 108, 105, 98>>,
     <<97, 46, 100, 121, 108, 105, 98>>}

\* the code limits the page hasher is applied with, besides the file length
CodeLimits == {1, 100, 4096, 4097, 6144}

VARIABLES
    disk,      \* the bytes of the file at binary_path
    before,    \* the bytes of the file when the last operation started
    out,       \* the buffer the last operation produced (<<>> if none)
    sigblob,   \* the super-blob the last operation built (<<>> if none)
    digests,   \* the page digests the last hashing returned
    cache,     \* EnhancedIPASigner.binary_cache
    parse,     \* what the parser of the last operation recorded
    key,       \* the private key of the signing identity
    name,      \* which input binary the file was at the start
    steps,     \* operations applied so far
    last,      \* the last operation and how it ended
    batch,     \* the run of a batch driver over the binaries of one app bundle
    walk       \* the load-command walk of MachOParser.get_code_signature_data

vars == <<disk, before, out, sigblob, digests, cache, parse, key, name, steps, last, batch, walk>>

\* what validate_inputs was given: whether the IPA path exists and is a zip
\* file, whether the P12 file holds a valid certificate, the provisioning
\* profile ("none", "valid" or "invalid") and whether it matches the certificate
NotValidated ==
    [validated |-> FALSE, ipa_exists |-> TRUE, ipa_is_zip |-> TRUE, p12_valid |-> TRUE,
     profile |-> "none", compatible |-> TRUE]

\* no MachOParser was constructed
NoWalk ==
    [pc |-> "none", offset |-> 0, found |-> FALSE, is_64bit |-> FALSE,
     is_little_endian |-> FALSE]

\* no batch driver is running
NoBatch ==
    [driver |-> "none", frameworks |-> <<>>, app |-> <<>>, i |-> 1, pc |-> "none",
     warnings |-> <<>>, written |-> FALSE, zip |-> <<>>, errors |-> <<>>,
     inputs |-> NotValidated,
     has_frameworks |-> TRUE, special |-> 0, skipped |-> 0, current_step |-> 0,
     temp_dir |-> "none", exit |-> "running", returned |-> "none", callbacks |-> 0]

Init ==
    /\ name \in InputNames
    /\ key \in Keys
    /\ disk = Input(name)
    /\ before = disk
    /\ out = <<>>
    /\ sigblob = <<>>
    /\ digests = <<>>
    /\ cache = {}
    /\ parse = NoParse
    /\ steps = 0
    /\ batch = NoBatch
    /\ walk = NoWalk
    /\ last = [op |-> "none", ok |-> TRUE, err |-> "", sigpos |-> -1, path |-> <<>>,
               weak |-> FALSE, limit |-> -1,
                trace |-> <<>>]

\* the steps of one pass of a sign_binary that goes through MachO,
\* CodeSignatureBuilder(data).build(certificate, private_key) and
\* replace_code_signature, in the order in which they end; a step that raises
\* is the last one.  build computes the page hashes in CodeDirectory.build,
\* signs the CodeDirectory bytes and assembles the super-blob.
ReplaceTrace(o) ==
    IF o.err = "cached" THEN <<"rewrite">>
    ELSE IF o.parse.class = "none" THEN <<>>
    ELSE IF ~o.parse.accepted THEN <<"parse">>
    ELSE IF o.sig = <<>> THEN <<"parse", "hash", "code_directory", "sign">>
    ELSE <<"parse", "hash", "code_directory", "sign", "superblob", "rewrite">>

\* IPASigner.sign_binary of pysign.py: MachOParser, then build() of
\* tools/macho/codesign.py (_calculate_code_hashes, CodeDirectory.to_bytes,
\* the super-blob; _sign_code_directory is never called), then the write
PysignTrace(o) ==
    IF ~o.parse.accepted THEN <<"parse">>
    ELSE <<"parse", "hash", "code_directory", "superblob", "rewrite">>

\* sign_binary of sign_ipa.py: build() of tools/macho/codesign.py, then
\* write_signature, which starts with MachOParser(binary_path) and fails there
RootTrace(o) ==
    IF o.ok THEN <<"hash", "code_directory", "superblob", "parse", "rewrite">>
    ELSE <<"hash", "code_directory", "superblob", "parse">>

\* the steps of the pass that operation op made
PassTrace(op, o) ==
    CASE op = "pysign" -> PysignTrace(o)
      [] op = "root"   -> RootTrace(o)
      [] OTHER         -> ReplaceTrace(o)

\* the bookkeeping every sign_binary action shares
Finish(op, o) ==
    /\ disk' = o.file
    /\ before' = disk
    /\ out' = o.out
    /\ sigblob' = o.sig
    /\ parse' = o.parse
    /\ steps' = steps + 1
    /\ last' = [op |-> op, ok |-> o.ok, err |-> o.err, sigpos |-> o.sigpos, path |-> <<>>,
                weak |-> FALSE, limit |-> -1,
                trace |-> PassTrace(op, o)]
    /\ UNCHANGED <<key, name, walk, batch>>

WindowsSignBinary ==
    /\ steps < MaxSteps
    /\ Finish("windows", windows_sign_binary(disk, key))
    /\ UNCHANGED <<digests, cache>>

ArchiveSignBinary ==
    /\ steps < MaxSteps
    /\ Finish("archive", archive_sign_binary(disk, key))
    /\ UNCHANGED <<digests, cache>>

\* the signed binary is written and remembered in binary_cache
EnhancedFinish(o) ==
    /\ Finish("enhanced", o)
    /\ cache' = enhanced_cache_after(disk, cache, o)

EnhancedSignBinary ==
    /\ steps < MaxSteps
    /\ EnhancedFinish(enhanced_sign_binary(disk, key, cache))
    /\ UNCHANGED digests

RootSignBinary ==
    /\ steps < MaxSteps
    /\ Finish("root", root_sign_binary(disk))
    /\ UNCHANGED <<digests, cache>>

PysignSignBinary ==
    /\ steps < MaxSteps
    /\ Finish("pysign", pysign_sign_binary(disk))
    /\ UNCHANGED <<digests, cache>>

InjectFinish(o, dylib_path, weak) ==
    /\ disk' = o.file
    /\ before' = disk
    /\ out' = o.out
    /\ last' = [op |-> "inject", ok |-> o.ok, err |-> o.err, sigpos |-> -1,
                path |-> dylib_path, weak |-> weak, limit |-> -1,
                trace |-> <<>>]

PysignInjectDylib ==
    /\ steps < MaxSteps
    /\ \E dylib_path \in DylibPaths, weak \in BOOLEAN :
         InjectFinish(pysign_inject_dylib(disk, dylib_path, weak), dylib_path, weak)
    /\ sigblob' = <<>>
    /\ parse' = NoParse
    /\ steps' = steps + 1
    /\ UNCHANGED <<digests, cache, key, name, walk, batch>>

\* what DylibInjector(macho_data).remove_dylib(dylib_path) returned or raised
RemoveFinish(r, dylib_path) ==
    /\ out' = r.data
    /\ last' = [op |-> "remove", ok |-> r.ok, err |-> r.err, sigpos |-> -1,
                path |-> dylib_path, weak |-> FALSE, limit |-> -1, trace |-> <<>>]

\* DylibInjector(macho_data).remove_dylib(dylib_path) on the bytes of the file
RemoveDylibCall ==
    /\ steps < MaxSteps
    /\ \E dylib_path \in DylibPaths : RemoveFinish(remove_dylib(disk, dylib_path), dylib_path)
    /\ before' = disk
    /\ sigblob' = <<>>
    /\ parse' = NoParse
    /\ steps' = steps + 1
    /\ UNCHANGED <<disk, digests, cache, key, name, walk, batch>>

\* the dylib load commands of one binary: injected, then removed
DylibNext ==
    \/ PysignInjectDylib
    \/ RemoveDylibCall

DylibSpec == Init /\ [][DylibNext]_vars

\* CodeSignatureBuilder._calculate_code_hashes(code_limit) on the file's bytes
CalculateCodeHashesCall ==
    /\ steps < MaxSteps
    /\ \E code_limit \in CodeLimits \cup {Len(disk)} :
         /\ code_limit <= Len(disk)
         /\ digests' = CalculateCodeHashes(disk, code_limit, 0)
         /\ last' = [op |-> "hash", ok |-> TRUE, err |-> "", sigpos |-> -1, path |-> <<>>,
                     weak |-> FALSE, limit |-> code_limit,
                trace |-> <<>>]
    /\ before' = disk
    /\ out' = <<>>
    /\ sigblob' = <<>>
    /\ parse' = NoParse
    /\ steps' = steps + 1
    /\ UNCHANGED <<disk, cache, key, name, walk, batch>>

\* CodeDirectory(binary_data, identifier).calculate_hashes() on the file's bytes
CalculateHashesCall ==
    /\ steps < MaxSteps
    /\ digests' = calculate_hashes(disk, 0, CodeDirectoryInit(disk, DEFAULT_IDENTIFIER).n_code_slots)
    /\ last' = [op |-> "hash_all", ok |-> TRUE, err |-> "", sigpos |-> -1, path |-> <<>>,
                weak |-> FALSE, limit |-> Len(disk),
                trace |-> <<>>]
    /\ before' = disk
    /\ out' = <<>>
    /\ sigblob' = <<>>
    /\ parse' = NoParse
    /\ steps' = steps + 1
    /\ UNCHANGED <<disk, cache, key, name, walk, batch>>

Next ==
    \/ WindowsSignBinary
    \/ ArchiveSignBinary
    \/ EnhancedSignBinary
    \/ RootSignBinary
    \/ PysignSignBinary
    \/ PysignInjectDylib
    \/ CalculateCodeHashesCall
    \/ CalculateHashesCall

Spec == Init /\ [][Next]_vars

\* ---------------------------------------------------------------- universal binaries

\* fat_arch entries of one universal binary
MaxArchs == 3

\* the kinds of fat_arch entries: three cputypes the selection names, one it
\* does not, and an ARM64 entry whose slice lies beyond the end of the file
ArchKinds == {"arm64", "x86_64", "x86", "ppc", "beyond"}

CpuOf(kind) ==
    CASE kind = "arm64"  -> CPU_ARM64
      [] kind = "beyond" -> CPU_ARM64
      [] kind = "x86_64" -> CPU_X86_64
      [] kind = "x86"    -> CPU_X86
      [] kind = "ppc"    -> CPU_POWERPC

\* a big-endian universal binary with one 32-byte slice per entry, in the
\* order of kinds; slice i is a mach_header_64 of its cputype that differs
\* from every other slice of the file
FatContainer(kinds) ==
    LET n     == Len(kinds)
        base  == 8 + 20 * n
        total == base + 32 * n
    IN  PackWord(FAT_MAGIC, FALSE) \o Pack32(n, FALSE)
        \o FatArchs([i \in 1..n |->
                        <<CpuOf(kinds[i]),
                          IF kinds[i] = "beyond" THEN total ELSE base + 32 * (i - 1),
                          32>>])
        \o Flatten([i \in 1..n |-> Header64(TRUE, CpuOf(kinds[i]), 0, i)])

FatContainers ==
    {FatContainer(kinds) : kinds \in UNION {[1..n -> ArchKinds] : n \in 1..MaxArchs}}

FatInit ==
    /\ name = "universal"
    /\ key = CHOOSE k \in Keys : k.kind = "rsa"
    /\ disk \in FatContainers
    /\ before = disk
    /\ out = <<>>
    /\ sigblob = <<>>
    /\ digests = <<>>
    /\ cache = {}
    /\ parse = NoParse
    /\ steps = 0
    /\ batch = NoBatch
    /\ walk = NoWalk
    /\ last = [op |-> "none", ok |-> TRUE, err |-> "", sigpos |-> -1, path |-> <<>>,
               weak |-> FALSE, limit |-> -1,
                trace |-> <<>>]

\* what _extract_arch_slice returned or raised
ExtractFinish(r) ==
    /\ out' = r.data
    /\ last' = [op |-> "extract", ok |-> r.ok, err |-> r.err, sigpos |-> -1, path |-> <<>>,
                weak |-> FALSE, limit |-> -1,
                trace |-> <<>>]

\* MachO._extract_arch_slice(data) on the bytes of the file
ExtractArchSliceCall ==
    /\ steps < 1
    /\ ExtractFinish(ExtractArchSlice(disk))
    /\ before' = disk
    /\ steps' = steps + 1
    /\ UNCHANGED <<disk, sigblob, digests, cache, parse, key, name, walk, batch>>

FatNext == ExtractArchSliceCall

FatSpec == FatInit /\ [][FatNext]_vars

\* ---------------------------------------------------------------- CodeDirectory serialisation

\* identifiers: "com.development.app", "*" and "a.b"
Identifiers == {DEFAULT_IDENTIFIER, <<42>>, <<97, 46, 98>>}

\* a CodeDirectory was serialised from the file's bytes: out holds the blob,
\* digests the code hashes it was built from
DirectoryFinish(op, identifier, cd_data, code_hashes) ==
    /\ out' = cd_data
    /\ digests' = code_hashes
    /\ before' = disk
    /\ steps' = steps + 1
    /\ last' = [op |-> op, ok |-> TRUE, err |-> "", sigpos |-> -1, path |-> identifier,
                weak |-> FALSE, limit |-> Len(disk), trace |-> <<>>]
    /\ UNCHANGED <<disk, sigblob, cache, parse, key, name, walk, batch>>

\* CodeDirectory(binary_data, identifier).build() of src/src/tools/macho/codesign.py
CodeDirectoryBuildCall ==
    /\ steps < 1
    /\ \E identifier \in Identifiers :
         DirectoryFinish("cd_build", identifier,
                         CodeDirectoryBuild(CodeDirectoryInit(disk, identifier)),
                         calculate_hashes(disk, 0, CodeDirectoryInit(disk, identifier).n_code_slots))

CreateFinish(identifier, code_hashes) ==
    DirectoryFinish("cd_create", identifier,
                    CodeDirectoryToBytes(CodeDirectoryCreate(identifier, Len(disk), code_hashes)),
                    code_hashes)

\* CodeDirectory.create(identifier, code_limit, code_hashes).to_bytes() of
\* tools/macho/structures.py
CodeDirectoryCreateCall ==
    /\ steps < 1
    /\ \E identifier \in Identifiers :
         CreateFinish(identifier, CalculateCodeHashes(disk, Len(disk), 0))

ToBytesFinish(code_hashes) ==
    DirectoryFinish("cd_to_bytes", <<42>>,
                    CodeDirectoryToBytes(BuildCodeDirectory(Len(disk), code_hashes)),
                    code_hashes)

\* the CodeDirectory(...) of CodeSignatureBuilder.build (tools/macho/codesign.py)
\* and its to_bytes()
CodeDirectoryToBytesCall ==
    /\ steps < 1
    /\ ToBytesFinish(CalculateCodeHashes(disk, Len(disk), 0))

\* builder.verify(builder.build()) of tools/macho/codesign.py on the file's
\* bytes; last.ok is what verify returned
BuildVerifyCall ==
    /\ steps < 1
    /\ sigblob' = ToolsBuild(disk)
    /\ last' = [op |-> "verify", ok |-> ToolsVerify(sigblob', key), err |-> "", sigpos |-> -1,
                path |-> <<>>, weak |-> FALSE, limit |-> Len(disk), trace |-> <<>>]
    /\ before' = disk
    /\ steps' = steps + 1
    /\ UNCHANGED <<disk, out, digests, cache, parse, key, name, walk, batch>>

\* CodeDirectory.from_bytes on the bytes that create(...).to_bytes() returned
FromBytesCall ==
    /\ last.op = "cd_create"
    /\ last' = [last EXCEPT !.op = "cd_from_bytes",
                            !.ok = CodeDirectoryFromBytes(out).ok,
                            !.err = CodeDirectoryFromBytes(out).err]
    /\ steps' = steps + 1
    /\ UNCHANGED <<disk, before, out, sigblob, digests, cache, parse, key, name, walk, batch>>

DirectoryNext ==
    \/ FromBytesCall
    \/ CodeDirectoryBuildCall
    \/ CodeDirectoryCreateCall
    \/ CodeDirectoryToBytesCall
    \/ BuildVerifyCall

DirectorySpec == Init /\ [][DirectoryNext]_vars

\* ---------------------------------------------------------------- MachOParser.get_code_signature_data

\* int.from_bytes(b, byteorder) of a slice of at most four bytes; a slice cut
\* short by the end of the buffer yields the value of the bytes that are there
IntFromBytes(b, le) == Val(Zeros(4 - Len(b)) \o (IF le THEN Rev(b) ELSE b))

\* parser = MachOParser(macho_data) on the bytes of the file
ParserInit ==
    /\ walk.pc = "none"
    /\ LET m == MachOParser(disk)
       IN  /\ parse' = ParserRecord(m)
           /\ walk' = [pc |-> IF m.ok THEN "constructed" ELSE "rejected", offset |-> 0,
                       found |-> FALSE, is_64bit |-> m.is_64bit,
                       is_little_endian |-> m.is_little_endian]
    /\ UNCHANGED <<disk, before, out, sigblob, digests, cache, key, name, steps, last, batch>>

\* get_code_signature_data up to its loop (lines 140-141)
GetCodeSignatureDataCall ==
    /\ walk.pc = "constructed"
    /\ walk' = [walk EXCEPT !.pc = "loop", !.offset = IF walk.is_64bit THEN 28 ELSE 24]
    /\ UNCHANGED <<disk, before, out, sigblob, digests, cache, parse, key, name, steps, last, batch>>

\* one test of the while condition and, if it holds, one pass of the loop body
\* (lines 143-156); return None at line 158
WalkStep ==
    /\ walk.pc = "loop"
    /\ LET offset  == walk.offset
           le      == walk.is_little_endian
           cmd     == IntFromBytes(Slice(disk, offset, offset + 4), le)
           cmdsize == IntFromBytes(Slice(disk, offset + 4, offset + 8), le)
           data_offset == IntFromBytes(Slice(disk, offset + 8, offset + 12), le)
           data_size   == IntFromBytes(Slice(disk, offset + 12, offset + 16), le)
       IN  IF ~(offset < Len(disk))
           THEN walk' = [walk EXCEPT !.pc = "returned", !.found = FALSE] /\ out' = <<>>
           ELSE IF cmd = 29
           THEN /\ walk' = [walk EXCEPT !.pc = "returned", !.found = TRUE]
                /\ out' = Slice(disk, data_offset, data_offset + data_size)
           ELSE walk' = [walk EXCEPT !.offset = offset + cmdsize] /\ out' = out
    /\ UNCHANGED <<disk, before, sigblob, digests, cache, parse, key, name, steps, last, batch>>

WalkNext ==
    \/ ParserInit
    \/ GetCodeSignatureDataCall
    \/ WalkStep

\* a call that was made is started, and a loop that is running goes on running
WalkSpec ==
    Init /\ [][WalkNext]_vars /\ WF_vars(GetCodeSignatureDataCall) /\ WF_vars(WalkStep)

\* ---------------------------------------------------------------- batch drivers

\* framework binaries of one app bundle
MaxFrameworks == 2

\* frameworks of one app bundle that _sign_frameworks skips by name
\* (CydiaSubstrate.framework, Spotilife.dylib)
MaxSpecial == 1

\* SigningProgress.total_steps as EnhancedIPASigner.sign sets it
TOTAL_STEPS == 7

\* the binaries an app bundle is made of: one that signs, one that is not a
\* Mach-O file, one that parses and has no signature to replace
BundleBinaries == {Input("signed_1k"), Input("bad_magic"), Input("unsigned_minimal")}

\* the three batch drivers: sign_ipa of archive/sign_ipa.py,
\* EnhancedIPASigner.sign, WindowsIPASigner.sign
Drivers == {"archive", "enhanced", "windows"}

\* the IPA is extracted and the certificate loaded; the frameworks of the
\* bundle are signed in directory order, then the main executable
BatchInit ==
    /\ name = "bundle"
    /\ key = CHOOSE k \in Keys : k.kind = "rsa"
    /\ batch \in [driver : Drivers,
                  frameworks : UNION {[1..n -> BundleBinaries] : n \in 0..MaxFrameworks},
                  app : BundleBinaries,
                  i : {1}, pc : {"validate", "running"}, warnings : {<<>>},
                  written : {FALSE}, zip : {<<>>}, errors : {<<>>},
                  inputs : {NotValidated},
                  has_frameworks : BOOLEAN, special : 0..MaxSpecial, skipped : {0},
                  current_step : {0}, temp_dir : {"none"}, exit : {"running"},
                  returned : {"none"}, callbacks : {0}]
    /\ batch.pc = "validate" <=> batch.driver = "enhanced"
    /\ batch.driver # "enhanced" => batch.has_frameworks /\ batch.special = 0
    /\ ~batch.has_frameworks => batch.frameworks = <<>> /\ batch.special = 0
    /\ walk = NoWalk
    /\ disk = <<>>
    /\ before = <<>>
    /\ out = <<>>
    /\ sigblob = <<>>
    /\ digests = <<>>
    /\ cache = {}
    /\ parse = NoParse
    /\ steps = 0
    /\ last = [op |-> "none", ok |-> TRUE, err |-> "", sigpos |-> -1, path |-> <<>>,
               weak |-> FALSE, limit |-> -1,
                trace |-> <<>>]

\* CertificateValidator.validate_p12(p12_path, password): (valid, details)
ValidateP12(p12_valid) ==
    [valid |-> p12_valid, details |-> IF p12_valid THEN "" ELSE "not a PKCS12 file"]

\* CertificateValidator.validate_provisioning_profile(prov_profile_path)
ValidateProvisioningProfile(profile) == [valid |-> profile = "valid"]

\* EnhancedIPASigner.validate_inputs: the first check that fails raises, the
\* handler appends str(e) to progress.errors and returns False
validate_inputs(in) ==
    IF ~in.ipa_exists THEN [ok |-> FALSE, errors |-> <<"IPA file not found">>]
    ELSE IF ~in.ipa_is_zip THEN [ok |-> FALSE, errors |-> <<"Invalid IPA file">>]
    ELSE IF ~ValidateP12(in.p12_valid).valid
    THEN [ok |-> FALSE, errors |-> <<"Invalid certificate">>]
    ELSE IF in.profile # "none" /\ ~ValidateProvisioningProfile(in.profile).valid
    THEN [ok |-> FALSE, errors |-> <<"Invalid provisioning profile">>]
    ELSE IF in.profile # "none" /\ ~in.compatible
    THEN [ok |-> FALSE, errors |-> <<"Certificate and profile not compatible">>]
    ELSE [ok |-> TRUE, errors |-> <<>>]

\* sign returns False when validate_inputs does, and goes on otherwise
AfterValidate(b, in, v) ==
    [b EXCEPT !.inputs = in, !.errors = b.errors \o v.errors,
              !.pc = IF v.ok THEN "load_certificate" ELSE "rejected"]

\* EnhancedIPASigner.validate_inputs at the start of sign
ValidateInputs ==
    /\ batch.pc = "validate"
    /\ \E in \in [validated : {TRUE}, ipa_exists : BOOLEAN, ipa_is_zip : BOOLEAN,
                   p12_valid : BOOLEAN, profile : {"none", "valid", "invalid"},
                   compatible : BOOLEAN] :
         batch' = AfterValidate(batch, in, validate_inputs(in))
    /\ UNCHANGED <<disk, before, out, sigblob, digests, cache, parse, key, name, walk, steps, last>>

\* load_certificate: progress.update, the key and certificate of the validated
\* P12 file are loaded
LoadCertificate ==
    /\ batch.pc = "load_certificate"
    /\ batch' = [batch EXCEPT !.current_step = @ + 1, !.pc = "extract"]
    /\ UNCHANGED <<disk, before, out, sigblob, digests, cache, parse, key, name, walk, steps, last>>

\* extract_ipa: progress.update, tempfile.mkdtemp, extractall; an archive
\* without a Payload directory or an .app bundle raises IPAError
ExtractIpa ==
    /\ batch.pc = "extract"
    /\ \E has_app \in BOOLEAN :
         batch' = [batch EXCEPT !.current_step = @ + 1, !.temp_dir = "exists",
                                !.pc = IF has_app THEN "remove_old_signature" ELSE "aborted"]
    /\ UNCHANGED <<disk, before, out, sigblob, digests, cache, parse, key, name, walk, steps, last>>

\* remove_old_signature (progress.update), then update_provisioning_profile
\* (progress.update only if a profile was given)
RemoveOldSignature ==
    /\ batch.pc = "remove_old_signature"
    /\ batch' = [batch EXCEPT !.current_step = @ + 1
                                    + (IF batch.inputs.profile # "none" THEN 1 ELSE 0),
                                !.pc = "running"]
    /\ UNCHANGED <<disk, before, out, sigblob, digests, cache, parse, key, name, walk, steps, last>>

\* _sign_frameworks: a framework with a special-case name is skipped with
\* progress.update (lines 241-243)
SkipSpecialCase ==
    /\ batch.pc = "running"
    /\ batch.skipped < batch.special
    /\ batch' = [batch EXCEPT !.current_step = @ + 1, !.skipped = @ + 1]
    /\ UNCHANGED <<disk, before, out, sigblob, digests, cache, parse, key, name, walk, steps, last>>

\* the sign_binary of a driver
DriverSign(driver, content, private_key, binary_cache) ==
    CASE driver = "archive"  -> archive_sign_binary(content, private_key)
      [] driver = "windows"  -> windows_sign_binary(content, private_key)
      [] driver = "enhanced" -> enhanced_sign_binary(content, private_key, binary_cache)

\* the framework loop of archive/sign_ipa.py catches ValueError, which is what
\* its sign_binary raises for every failure except a struct.error of
\* replace_code_signature; _sign_frameworks of enhanced_signer.py re-raises and
\* sign_frameworks of windows_signer.py has no handler
FrameworkFailureCaught(driver, o) == driver = "archive" /\ o.err # "struct.error"

\* the run after sign_binary of framework b.i ended as o
AfterFramework(b, o) ==
    IF o.ok THEN [b EXCEPT !.frameworks[b.i] = o.file, !.i = b.i + 1]
    ELSE IF FrameworkFailureCaught(b.driver, o)
    THEN [b EXCEPT !.warnings = Append(@, b.i), !.i = b.i + 1]
    ELSE [b EXCEPT !.pc = "failed"]

\* progress.update of EnhancedIPASigner between the framework loop and
\* sign_binary of the main executable: "Signed binaries: n" at the end of
\* _sign_frameworks if there is a Frameworks directory, "Signing main
\* application" in sign_app
AppUpdates(b) ==
    IF b.driver # "enhanced" THEN 0 ELSE (IF b.has_frameworks THEN 1 ELSE 0) + 1

\* the run after sign_binary of the main executable ended as o
AfterApp(b, o) ==
    IF o.ok THEN [b EXCEPT !.app = o.file, !.pc = "signed",
                           !.current_step = @ + AppUpdates(b)]
    ELSE [b EXCEPT !.pc = "failed", !.current_step = @ + AppUpdates(b)]

\* content is what sign_binary read from the file, o.file what the file holds
\* when sign_binary returns
BatchFinish(content, o, b) ==
    /\ batch' = b
    /\ before' = content
    /\ disk' = o.file
    /\ cache' = IF batch.driver = "enhanced" THEN enhanced_cache_after(content, cache, o)
                 ELSE cache
    /\ last' = [op |-> "batch", ok |-> o.ok, err |-> o.err, sigpos |-> -1, path |-> <<>>,
                weak |-> FALSE, limit |-> -1,
                trace |-> <<>>]

FrameworkFinish(content, o) == BatchFinish(content, o, AfterFramework(batch, o))

AppFinish(content, o) == BatchFinish(content, o, AfterApp(batch, o))

\* one pass of the framework loop
SignFramework ==
    /\ batch.pc = "running"
    /\ batch.i <= Len(batch.frameworks)
    /\ FrameworkFinish(batch.frameworks[batch.i],
                       DriverSign(batch.driver, batch.frameworks[batch.i], key, cache))
    /\ UNCHANGED <<out, sigblob, digests, parse, key, name, walk, steps>>

\* sign_app / "Sign main binary"
SignApp ==
    /\ batch.pc = "running"
    /\ batch.i > Len(batch.frameworks)
    /\ batch.skipped = batch.special
    /\ AppFinish(batch.app, DriverSign(batch.driver, batch.app, key, cache))
    /\ UNCHANGED <<out, sigblob, digests, parse, key, name, walk, steps>>

\* create_signed_ipa / "Create new IPA": the output archive holds the files of
\* the bundle
CreateSignedIpa ==
    /\ batch.pc = "signed"
    /\ batch' = [batch EXCEPT !.pc = "done", !.written = TRUE,
                                !.zip = batch.frameworks \o <<batch.app>>,
                                !.current_step = @ + (IF batch.driver = "enhanced" THEN 1 ELSE 0)]
    /\ UNCHANGED <<disk, before, out, sigblob, digests, cache, parse, key, name, walk, steps, last>>

\* EnhancedIPASigner.sign leaves its try block (lines 314-333): return False
\* after a failed validation; progress.update and return len(errors) == 0
\* after create_signed_ipa; add_error and return False in the except clause
SignReturn ==
    /\ batch.driver = "enhanced"
    /\ batch.exit = "running"
    /\ batch.pc \in {"rejected", "aborted", "failed", "done"}
    /\ batch' = [batch EXCEPT
                    !.exit = "finally",
                    !.current_step = @ + (IF batch.pc = "done" THEN 1 ELSE 0),
                    !.errors = IF batch.pc \in {"aborted", "failed"}
                               THEN Append(@, "Signing failed") ELSE @,
                    !.returned = IF batch.pc = "done" /\ batch.errors = <<>>
                                 THEN "True" ELSE "False"]
    /\ UNCHANGED <<disk, before, out, sigblob, digests, cache, parse, key, name, walk, steps, last>>

\* cleanup without the removal of the temporary directory
AfterCleanupKeepsDirectory(b) == [b EXCEPT !.exit = "cleaned"]

\* EnhancedIPASigner.cleanup: the temporary directory is removed if there is one
AfterCleanup(b) ==
    [b EXCEPT !.exit = "cleaned",
              !.temp_dir = IF b.temp_dir = "exists" THEN "removed" ELSE b.temp_dir]

\* finally: self.cleanup()
Cleanup ==
    /\ batch.exit = "finally"
    /\ batch' = AfterCleanup(batch)
    /\ UNCHANGED <<disk, before, out, sigblob, digests, cache, parse, key, name, walk, steps, last>>

\* finally: self.callback(self.progress), then sign returns
Callback ==
    /\ batch.exit = "cleaned"
    /\ batch' = [batch EXCEPT !.exit = "returned", !.callbacks = @ + 1]
    /\ UNCHANGED <<disk, before, out, sigblob, digests, cache, parse, key, name, walk, steps, last>>

BatchNext ==
    \/ ValidateInputs
    \/ LoadCertificate
    \/ ExtractIpa
    \/ RemoveOldSignature
    \/ SkipSpecialCase
    \/ SignFramework
    \/ SignApp
    \/ CreateSignedIpa
    \/ SignReturn
    \/ Cleanup
    \/ Callback

BatchSpec == BatchInit /\ [][BatchNext]_vars

\* ---------------------------------------------------------------- properties

\* the operations that sign through MachO, build and replace_code_signature
ReplaceOps == {"windows", "archive", "enhanced"}

\* every operation that signs one binary
SignOps == ReplaceOps \cup {"root", "pysign"}

\* the last operation signed the binary through the replace path
Replaced == last.op \in ReplaceOps /\ last.ok /\ last.err # "cached"

\* the offsets in the file of the LC_CODE_SIGNATURE commands the parser recorded
SignatureCommandOffsets ==
    {parse.load_commands[k].offset : k \in {j \in 1..Len(parse.load_commands) :
                                        parse.load_commands[j].cmd = LC_CODE_SIGNATURE}}

\* C1: after signing through the replace path, every code-slot hash stored in
\* the embedded CodeDirectory equals the hash of page i of the output buffer
\* (pages of 4096 bytes, limited by the codeLimit the CodeDirectory records).
\* The slots are read where the build put them: the CodeDirectory follows the
\* 12-byte super-blob header and the two index entries, the hashes follow the
\* 88-byte header, the identifier and its NUL, padded to 8.
C1_StoredHashesVerifyOutput ==
    Replaced =>
        LET cd     == last.sigpos + 12 + 2 * 8
            hashes == cd + ((88 + Len(DEFAULT_IDENTIFIER) + 1 + 7) \div 8) * 8
            n      == Val(Unpack32(out, cd + 28, FALSE))
            limit  == Val(Unpack32(out, cd + 32, FALSE))
        IN  \A i \in 0..(n - 1) :
                Slice(out, hashes + HASH_SIZE * i, hashes + HASH_SIZE * (i + 1))
                    = Sha256(Slice(out, i * PAGE_SIZE, Min((i + 1) * PAGE_SIZE, limit)))

\* C2: signing a valid Mach-O buffer that has no LC_CODE_SIGNATURE succeeds, the
\* output begins with the same magic and an LC_CODE_SIGNATURE command is among
\* the load commands of the output.
C2_UnsignedBecomesSigned ==
    (last.op \in SignOps /\ key.kind = "rsa" /\ parse.accepted
        /\ SignatureCommandOffsets = {}) =>
        /\ last.ok
        /\ Slice(disk, 0, 4) = Slice(before, 0, 4)
        /\ LET m == MachO(disk)
           IN  m.ok /\ CodeSignatureCommands(m.load_commands) # <<>>

C4_CommandNamesWrittenBlob ==
    (last.op \in ReplaceOps \cup {"pysign"} /\ last.ok /\ last.err # "cached") =>
        LET le == Unpack32(out, 0, TRUE) \in {MH_MAGIC, MH_MAGIC_64}
        IN  \E off \in SignatureCommandOffsets :
                /\ Val(Unpack32(out, off + 8, le)) = last.sigpos
                /\ Val(Unpack32(out, off + 12, le)) = Len(sigblob)

\* C5: replace_code_signature with a signature that fits returns a buffer as
\* long as the input whose bytes outside the recorded region [offset,
\* offset + size) are the input's.
C5_ReplaceFrame ==
    Replaced =>
        \A off \in SignatureCommandOffsets :
            LET offset == Val(Unpack32(before, off + 8, TRUE))
                size   == Val(Unpack32(before, off + 12, TRUE))
            IN  /\ Len(out) = Len(before)
                /\ \A k \in 1..Min(Len(out), Len(before)) :
                       (k - 1 < offset \/ k - 1 >= offset + size) => out[k] = before[k]

\* C6: when the new super-blob is longer than the existing signature region,
\* signing succeeds and the output is as long as the input without the old
\* signature plus the new one plus at most 15 bytes of padding.
C6_LargerSignatureGrows ==
    \A off \in SignatureCommandOffsets :
        LET size == Val(Unpack32(before, off + 12, TRUE))
        IN  (last.op \in ReplaceOps /\ sigblob # <<>> /\ Len(sigblob) > size) =>
                /\ last.ok
                /\ Len(disk) - (Len(before) - size + Len(sigblob)) \in 0..15

\* C7: an emitted super-blob starts with 0xfade0cc0, has exactly one index
\* entry of slot type 0, and the four bytes at that entry's recorded offset are
\* the CodeDirectory magic 0xfade0c02.
C7_IndexFindsCodeDirectory ==
    (last.op \in SignOps /\ sigblob # <<>>) =>
        LET count == Val(Unpack32(sigblob, 8, FALSE))
            slot0 == {k \in 0..(count - 1) : Val(Unpack32(sigblob, 12 + 8 * k, FALSE)) = 0}
        IN  /\ Unpack32(sigblob, 0, FALSE) = CSMAGIC_EMBEDDED_SIGNATURE
            /\ Cardinality(slot0) = 1
            /\ \A k \in slot0 :
                   LET at == Val(Unpack32(sigblob, 12 + 8 * k + 4, FALSE))
                   IN  Slice(sigblob, at, at + 4) = CSMAGIC_CODEDIRECTORY

\* C8: digest i of the page hashers is the hash of exactly the bytes
\* [i*4096, min((i+1)*4096, codeLimit)); a last page shorter than 4096 bytes is
\* hashed as it is, without zero padding.
C8_PagesHashedUnpadded ==
    last.op \in {"hash", "hash_all"} =>
        /\ Len(digests) = (last.limit + PAGE_SIZE - 1) \div PAGE_SIZE
        /\ \A i \in 0..(Len(digests) - 1) :
               digests[i + 1]
                   = Sha256(Slice(disk, i * PAGE_SIZE, Min((i + 1) * PAGE_SIZE, last.limit)))

\* C9: every load command of an accepted buffer has cmdsize >= 8 and ends
\* inside the declared commands region, headerSize + sizeofcmds.
C9_AcceptedCommandsWellFormed ==
    parse.accepted =>
        \A k \in 1..Len(parse.load_commands) :
            /\ parse.load_commands[k].cmdsize >= 8
            /\ parse.load_commands[k].offset + parse.load_commands[k].cmdsize
                   <= parse.header_size + parse.sizeofcmds

\* C10: inject_dylib on a buffer DylibInjector accepts succeeds; ncmds grows by
\* one, sizeofcmds by the new command's size (24 + the path with its NUL,
\* padded to 8), and the command after the previous last one is LC_LOAD_DYLIB
\* (LC_LOAD_WEAK_DYLIB when weak) whose path, at name offset 24, is the
\* requested one.
C10_InjectDylibAddsCommand ==
    (last.op = "inject" /\ DylibHeaderSize(before) # 0) =>
        LET ncmds   == Val(Unpack32(before, 16, FALSE))
            cmdsize == 24 + ((Len(last.path) + 1 + 7) \div 8) * 8
            at      == DylibEndOfCommands(before, ncmds, DylibHeaderSize(before))
        IN  /\ last.ok
            /\ Val(Unpack32(out, 16, FALSE)) = ncmds + 1
            /\ Val(Unpack32(out, 20, FALSE)) = Val(Unpack32(before, 20, FALSE)) + cmdsize
            /\ Unpack32(out, at, FALSE)
                   = (IF last.weak THEN LC_LOAD_WEAK_DYLIB ELSE LC_LOAD_DYLIB)
            /\ Val(Unpack32(out, at + 4, FALSE)) = cmdsize
            /\ RStrip(Slice(out, at + 24, at + cmdsize)) = last.path

\* the file offset of the first section of a big-endian 64-bit binary: the
\* offset field of the section_64 that follows the first segment command with
\* sections (-1 if there is none)
RECURSIVE FirstSectionOffset(_, _, _)
FirstSectionOffset(data, n, offset) ==
    IF n = 0 \/ offset + 8 > Len(data) THEN -1
    ELSE IF Unpack32(data, offset, FALSE) = LC_SEGMENT_64
            /\ offset + 152 <= Len(data)
            /\ Val(Unpack32(data, offset + 64, FALSE)) > 0
         THEN Val(Unpack32(data, offset + 72 + 48, FALSE))
         ELSE FirstSectionOffset(data, n - 1, offset + Val(Unpack32(data, offset + 4, FALSE)))

\* C11: inject_dylib fills free space only.  When the slack between the end of
\* the load-command table and the first section's file offset is smaller than
\* the new command, the call fails with the no-room error and yields no
\* output; when it succeeds the output is as long as the input and every byte
\* at or after the first section's file offset is the input's.
C11_InjectFillsFreeSpace ==
    (last.op = "inject" /\ DylibHeaderSize(before) # 0) =>
        LET ncmds   == Val(Unpack32(before, 16, FALSE))
            cmdsize == 24 + ((Len(last.path) + 1 + 7) \div 8) * 8
            at      == DylibEndOfCommands(before, ncmds, DylibHeaderSize(before))
            first   == FirstSectionOffset(before, ncmds, DylibHeaderSize(before))
        IN  first # -1 =>
                IF first - at < cmdsize
                THEN ~last.ok /\ last.err = "NoRoomForLoadCommand" /\ out = <<>>
                ELSE last.ok =>
                         /\ Len(out) = Len(before)
                         /\ \A k \in (first + 1)..Len(before) : out[k] = before[k]

\* the fat_arch entries of a big-endian universal binary, read from its bytes
FatEntries(data) ==
    [i \in 1..Val(Unpack32(data, 4, FALSE)) |->
        [cputype |-> Unpack32(data, 8 + 20 * (i - 1), FALSE),
         offset  |-> Val(Unpack32(data, 8 + 20 * (i - 1) + 8, FALSE)),
         size    |-> Val(Unpack32(data, 8 + 20 * (i - 1) + 12, FALSE))]]

\* the entries whose slice lies inside the file
ValidEntries(data) ==
    {i \in 1..Len(FatEntries(data)) :
        FatEntries(data)[i].offset + FatEntries(data)[i].size <= Len(data)}

\* the valid entries of a cputype
EntriesOf(data, cputype) == {i \in ValidEntries(data) : FatEntries(data)[i].cputype = cputype}

\* the bytes of the slice of entry i
EntrySlice(data, i) ==
    Slice(data, FatEntries(data)[i].offset, FatEntries(data)[i].offset + FatEntries(data)[i].size)

\* C12: whatever the order of the fat_arch entries, the slice selection returns
\* an ARM64 slice if some valid entry is ARM64, else an x86-64 slice if some
\* valid entry is x86-64 (cputype 0x01000007), else the first valid entry.
C12_PreferredSliceSelected ==
    last.op = "extract" =>
        IF EntriesOf(disk, CPU_ARM64) # {}
        THEN last.ok /\ \E i \in EntriesOf(disk, CPU_ARM64) : out = EntrySlice(disk, i)
        ELSE IF EntriesOf(disk, CPU_X86_64) # {}
        THEN last.ok /\ \E i \in EntriesOf(disk, CPU_X86_64) : out = EntrySlice(disk, i)
        ELSE ValidEntries(disk) # {} =>
                 /\ last.ok
                 /\ out = EntrySlice(disk, CHOOSE i \in ValidEntries(disk) :
                                               \A j \in ValidEntries(disk) : i <= j)

\* C13: signing a universal binary that holds a little-endian ARM64 slice is
\* signing that slice alone: the parse records the header fields and load
\* commands of MachO(slice), read in the slice's own byte order, and the call
\* succeeds and outputs the signed slice exactly when signing the slice does.
C13_FatParsesAsSlice ==
    (last.op \in ReplaceOps /\ last.err # "cached" /\ Len(before) >= 32
        /\ Unpack32(before, 0, FALSE) = FAT_MAGIC /\ EntriesOf(before, CPU_ARM64) # {}) =>
        LET alone == ParseBuildReplace(
                         EntrySlice(before, CHOOSE i \in EntriesOf(before, CPU_ARM64) : TRUE),
                         key)
        IN  /\ parse = alone.parse
            /\ last.ok = alone.ok
            /\ out = alone.out

\* C14: in each batch driver a framework binary that fails to parse or sign is
\* skipped with a warning and the run continues; only a failure of the main
\* executable aborts the run, and then no output archive is written.
C14_FrameworkFailureSkipped ==
    /\ batch.pc = "failed" => batch.i > Len(batch.frameworks) /\ ~batch.written
    /\ batch.written => batch.pc = "done"

\* C15: validate_inputs, given a P12 file that holds no valid certificate,
\* returns False and progress.errors has an entry with the text 'Invalid
\* certificate'; also when the IPA path does not exist.
C15_InvalidCertificateReported ==
    (batch.inputs.validated /\ ~batch.inputs.p12_valid) =>
        /\ batch.pc = "rejected"
        /\ \E k \in 1..Len(batch.errors) : batch.errors[k] = "Invalid certificate"

\* the order of the steps of one signing pass
PassOrder == <<"parse", "hash", "code_directory", "sign", "superblob", "rewrite">>

\* the super-blob holds, behind its header and index, CodeDirectory bytes
\* followed by a signature wrapper whose payload is the signature of exactly
\* these bytes
CarriesSignatureOfDirectory(blob, private_key) ==
    \E p \in (12 + 8 * Val(Unpack32(blob, 8, FALSE)))..(Len(blob) - 8) :
        /\ Slice(blob, p, p + 4) = CSMAGIC_BLOBWRAPPER
        /\ Sign(private_key, Slice(blob, 12 + 8 * Val(Unpack32(blob, 8, FALSE)), p)).ok
        /\ Slice(blob, p + 8, Len(blob))
               = Sign(private_key, Slice(blob, 12 + 8 * Val(Unpack32(blob, 8, FALSE)), p)).data

\* C16: every signing pass runs parse, hash, build CodeDirectory, sign, build
\* super-blob, rewrite in this order, each once (a pass that fails stops after
\* the failing step); the sign step is part of every pass, so every emitted
\* super-blob carries a signature computed over the CodeDirectory bytes it
\* embeds.
C16_StepsInOrder ==
    last.op \in SignOps =>
        /\ Len(last.trace) <= Len(PassOrder)
        /\ last.trace = SubSeq(PassOrder, 1, Len(last.trace))
        /\ last.ok => last.trace = PassOrder
        /\ sigblob # <<>> => CarriesSignatureOfDirectory(sigblob, key)

\* the __LINKEDIT segment commands of a binary, as its load-command table holds
\* them
LinkeditSegments(data) ==
    {seg \in {MachO(data).segments[k] : k \in 1..Len(MachO(data).segments)} :
        seg.segname = SEG_LINKEDIT}

\* C17: after a signature is appended at the end of a binary, the filesize
\* field of the __LINKEDIT segment command of the output covers the signature
\* (fileoff + filesize >= signature offset + signature length), and only that
\* field of the input's bytes was changed.
C17_LinkeditCoversSignature ==
    (last.op \in {"pysign", "root"} /\ last.ok /\ MachO(out).ok) =>
        \A seg \in LinkeditSegments(out) :
            /\ seg.fileoff + seg.filesize >= last.sigpos + Len(sigblob)
            /\ \A j \in 1..Len(before) :
                   (j - 1 < seg.at + 48 \/ j - 1 >= seg.at + 56) => out[j] = before[j]

\* the operations that serialise a CodeDirectory as a signature build does
DirectoryBuildOps == {"cd_build", "cd_to_bytes"}

\* every operation that serialises a CodeDirectory
DirectoryOps == DirectoryBuildOps \cup {"cd_create"}

\* C18: in a CodeDirectory blob emitted by a signature build the length field
\* equals hashOffset + nCodeSlots * hashSize and equals the number of bytes
\* serialised, and the code hashes occupy exactly the bytes
\* [hashOffset, hashOffset + nCodeSlots * hashSize).
C18_DirectoryLengthCoversHashes ==
    last.op \in DirectoryBuildOps =>
        LET length     == Val(Unpack32(out, 4, FALSE))
            hashOffset == Val(Unpack32(out, 16, FALSE))
            nCodeSlots == Val(Unpack32(out, 28, FALSE))
        IN  /\ nCodeSlots = Len(digests)
            /\ length = hashOffset + nCodeSlots * HASH_SIZE
            /\ length = Len(out)
            /\ Slice(out, hashOffset, hashOffset + nCodeSlots * HASH_SIZE) = Flatten(digests)

\* C19: in a serialised CodeDirectory the identOffset field is the size of the
\* header that was emitted: the identifier and its NUL stand at identOffset,
\* right behind the header, and hashOffset is identOffset + len(identifier) + 1
\* rounded up to a multiple of 4.
C19_IdentifierAtIdentOffset ==
    last.op \in DirectoryOps =>
        LET hashOffset  == Val(Unpack32(out, 16, FALSE))
            identOffset == Val(Unpack32(out, 20, FALSE))
        IN  /\ Slice(out, identOffset, identOffset + Len(last.path) + 1) = last.path \o <<0>>
            /\ hashOffset = ((identOffset + Len(last.path) + 1 + 3) \div 4) * 4

\* C20: an emitted super-blob with M index entries has its first sub-blob at
\* byte 12 + 8 * M, every index entry's offset is the position at which a
\* sub-blob starts (the CodeDirectory for slot 0, the signature wrapper for
\* the other slot), the offsets are strictly increasing, and the length field
\* is the number of bytes emitted.
C20_IndexMatchesLayout ==
    (last.op \in SignOps /\ sigblob # <<>>) =>
        LET M        == Val(Unpack32(sigblob, 8, FALSE))
            type(k)  == Val(Unpack32(sigblob, 12 + 8 * (k - 1), FALSE))
            off(k)   == Val(Unpack32(sigblob, 12 + 8 * (k - 1) + 4, FALSE))
        IN  /\ M >= 1
            /\ off(1) = 12 + 8 * M
            /\ \A k \in 1..M :
                   Slice(sigblob, off(k), off(k) + 4)
                       = (IF type(k) = 0 THEN CSMAGIC_CODEDIRECTORY ELSE CSMAGIC_BLOBWRAPPER)
            /\ \A k \in 1..(M - 1) : off(k) < off(k + 1)
            /\ Val(Unpack32(sigblob, 4, FALSE)) = Len(sigblob)

\* C21: in a thin buffer the parser accepts, the region (dataoff, datasize) of
\* every LC_CODE_SIGNATURE lies inside the buffer and inside the file range of
\* the __LINKEDIT segment, so that a replaced signature leaves the header and
\* the load-command table as they were.
C21_SignatureRegionInLinkedit ==
    (last.op \in ReplaceOps \cup {"pysign"} /\ parse.accepted
        /\ Unpack32(before, 0, FALSE) \notin {FAT_MAGIC, FAT_CIGAM}) =>
        \A off \in SignatureCommandOffsets :
            LET le       == Unpack32(before, 0, TRUE) \in {MH_MAGIC, MH_MAGIC_64}
                dataoff  == Val(Unpack32(before, off + 8, le))
                datasize == Val(Unpack32(before, off + 12, le))
            IN  /\ dataoff + datasize <= Len(before)
                /\ \E seg \in LinkeditSegments(before) :
                       /\ seg.fileoff <= dataoff
                       /\ dataoff + datasize <= seg.fileoff + seg.filesize
                /\ Replaced =>
                       Slice(out, 0, parse.header_size + parse.sizeofcmds)
                           = Slice(before, 0, parse.header_size + parse.sizeofcmds)

\* C22: for every segment command with nsects = K of an accepted buffer the
\* parser yields exactly K section records, and record j is decoded from the
\* bytes right behind the fixed segment-command header: at command offset
\* + 72 + 80 * j for a 64-bit binary, + 56 + 68 * j for a 32-bit one.
C22_SectionsFollowSegmentHeader ==
    (last.op \in ReplaceOps /\ parse.class = "MachO" /\ parse.accepted) =>
        LET m == MachO(before)
        IN  \A k \in 1..Len(m.segments) :
                /\ Len(m.segments[k].sections) = m.segments[k].nsects
                /\ \A j \in 1..Len(m.segments[k].sections) :
                       m.segments[k].sections[j].at
                           = m.segments[k].at
                             + (IF m.header.is_64bit THEN 72 + 80 * (j - 1)
                                                     ELSE 56 + 68 * (j - 1))

\* C23: in fat slice selection an arch entry whose offset + size exceeds the
\* buffer is passed over alone: the selected slice is that of a valid entry,
\* and a valid ARM64 entry that stands behind an out-of-bounds entry is still
\* read from its own record and selected.
C23_OutOfBoundsEntryPassedOver ==
    last.op = "extract" =>
        /\ last.ok => \E i \in ValidEntries(disk) : out = EntrySlice(disk, i)
        /\ (\E i \in EntriesOf(disk, CPU_ARM64) :
                \E j \in 1..(i - 1) : j \notin ValidEntries(disk)) =>
               /\ last.ok
               /\ \E i \in EntriesOf(disk, CPU_ARM64) : out = EntrySlice(disk, i)

\* C24: get_code_signature_data terminates on every buffer the MachOParser
\* constructor accepted; its walk visits only load commands the constructor
\* recorded, and it returns the bytes of the region the LC_CODE_SIGNATURE
\* command names if there is such a command, None otherwise.
C24_SignatureWalkTerminates ==
    /\ [](walk.pc = "loop" /\ walk.offset < Len(disk) =>
              \E k \in 1..Len(parse.load_commands) :
                  parse.load_commands[k].offset = walk.offset)
    /\ [](walk.pc = "returned" =>
              IF SignatureCommandOffsets = {} THEN ~walk.found
              ELSE /\ walk.found
                   /\ \E off \in SignatureCommandOffsets :
                          out = Slice(disk,
                                      IntFromBytes(Slice(disk, off + 8, off + 12), walk.is_little_endian),
                                      IntFromBytes(Slice(disk, off + 8, off + 12), walk.is_little_endian)
                                      + IntFromBytes(Slice(disk, off + 12, off + 16), walk.is_little_endian)))
    /\ (walk.pc = "constructed" ~> walk.pc = "returned")

\* the load commands found by walking n commands from offset, each as its
\* bytes; the walk ends with <<>> at a command with cmdsize < 8 or one that
\* does not lie inside the buffer
RECURSIVE CommandTable(_, _, _)
CommandTable(data, n, offset) ==
    IF n = 0 THEN <<>>
    ELSE IF offset + 8 > Len(data) THEN <<<<>>>>
    ELSE LET cmdsize == Val(Unpack32(data, offset + 4, FALSE))
         IN  IF cmdsize < 8 \/ offset + cmdsize > Len(data) THEN <<<<>>>>
             ELSE <<Slice(data, offset, offset + cmdsize)>>
                  \o CommandTable(data, n - 1, offset + cmdsize)

\* command c is an LC_LOAD_DYLIB or LC_LOAD_WEAK_DYLIB command that names path
NamesDylib(c, path) ==
    /\ Len(c) >= 24 + Len(path) + 1
    /\ Slice(c, 0, 4) \in {LC_LOAD_DYLIB, LC_LOAD_WEAK_DYLIB}
    /\ Val(Unpack32(c, 8, FALSE)) = 24
    /\ Slice(c, 24, 24 + Len(path) + 1) = path \o <<0>>

\* C25: remove_dylib(path), when a dylib load command with that path exists,
\* returns a buffer whose ncmds is the input's minus one and whose sizeofcmds
\* is the input's minus the command's cmdsize, and walking ncmds commands
\* from the end of the header visits the remaining original commands in order.
C25_RemoveDylibDropsCommand ==
    (last.op = "remove" /\ DylibHeaderSize(before) # 0) =>
        LET ncmds == Val(Unpack32(before, 16, FALSE))
            table == CommandTable(before, ncmds, DylibHeaderSize(before))
        IN  \A k \in 1..Len(table) :
                (NamesDylib(table[k], last.path)
                    /\ \A j \in 1..(k - 1) : ~NamesDylib(table[j], last.path)) =>
                    /\ last.ok
                    /\ Val(Unpack32(out, 16, FALSE)) = ncmds - 1
                    /\ Val(Unpack32(out, 20, FALSE))
                           = Val(Unpack32(before, 20, FALSE)) - Len(table[k])
                    /\ CommandTable(out, Val(Unpack32(out, 16, FALSE)), DylibHeaderSize(out))
                           = SubSeq(table, 1, k - 1) \o SubSeq(table, k + 1, Len(table))

\* C26: for a builder whose certificate's public key matches its private key,
\* verify(build()) returns True for every input binary.
C26_BuildVerifies ==
    (last.op = "verify" /\ key.kind = "rsa") => last.ok

\* C27: for every CodeDirectory cd that CodeDirectory.create returns,
\* CodeDirectory.from_bytes(cd.to_bytes()) succeeds and its magic, length,
\* version, flags, hashOffset, identOffset, nSpecialSlots, nCodeSlots,
\* codeLimit, hashSize, hashType, platform, pageSize and identifier are those
\* of cd.
C27_DirectoryRoundTrip ==
    last.op = "cd_from_bytes" =>
        LET cd == CodeDirectoryCreate(last.path, last.limit, digests)
            r  == CodeDirectoryFromBytes(out)
        IN  /\ last.ok
            /\ r.ok
            /\ \A f \in {"magic", "length", "version", "flags", "hashOffset", "identOffset",
                          "nSpecialSlots", "nCodeSlots", "codeLimit", "hashSize", "hashType",
                          "platform", "pageSize", "identifier"} : r[f] = cd[f]

\* C29: in every state of a run of EnhancedIPASigner.sign the progress counter
\* stays within its range, 0 <= current_step <= total_steps, whichever of the
\* optional steps (provisioning profile, Frameworks directory, special-case
\* frameworks) the run takes.
C29_ProgressWithinTotal ==
    batch.driver = "enhanced" =>
        0 <= batch.current_step /\ batch.current_step <= TOTAL_STEPS

\* C28: on every exit path of EnhancedIPASigner.sign (validation fails, a step
\* raises, success) the temporary directory no longer exists when sign
\* returns, the progress callback is invoked exactly once and only after
\* cleanup, and sign returns True only if the output archive was written and
\* progress.errors is empty.
C28_CleanupThenCallbackOnce ==
    batch.driver = "enhanced" =>
        /\ batch.callbacks <= 1
        /\ batch.callbacks = 1 => batch.exit = "returned" /\ batch.temp_dir # "exists"
        /\ batch.exit = "returned" =>
              /\ batch.callbacks = 1
              /\ batch.temp_dir # "exists"
              /\ batch.returned \in {"True", "False"}
              /\ batch.returned = "True" => batch.written /\ batch.errors = <<>>

\* sign has returned after a step raised with the temporary directory created
C28_ReturnedAfterRaise ==
    /\ batch.driver = "enhanced"
    /\ batch.exit = "returned"
    /\ batch.pc \in {"aborted", "failed"}
    /\ batch.temp_dir = "removed"
    /\ batch.callbacks = 1
    /\ batch.returned = "False"

\* C30: the content-hash cache of EnhancedIPASigner.sign_binary is only a
\* speed-up: after every call the file holds the bytes that signing its
\* content without a cache leaves in it and the call succeeds exactly when
\* uncached signing does, and every cache entry is the signed form of a
\* content that was signed successfully.
C30_CacheIsOnlySpeedUp ==
    (batch.driver = "enhanced" /\ last.op = "batch") =>
        /\ LET alone == enhanced_sign_uncached(before, key)
           IN  disk = alone.file /\ last.ok = alone.ok
        /\ \A e \in cache :
              \E c \in BundleBinaries :
                 LET alone == enhanced_sign_uncached(c, key)
                 IN  e.hash = Sha256(c) /\ alone.ok /\ e.signed = alone.out

\* sign_binary has written a cached signed binary
C30_CachedBinaryWritten ==
    /\ batch.driver = "enhanced"
    /\ last.op = "batch"
    /\ last.err = "cached"
    /\ disk # before

====
